---- MODULE Spec2Model ----
(***************************************************************************)
(* A model of bptools: the bipolar pair generator (bptools/pairs.py), the  *)
(* Odin electrode configuration and its CSV codec (bptools/odin/config.py) *)
(* and the referencing transform (bptools/transform.py).                   *)
(***************************************************************************)
EXTENDS Integers, Sequences, FiniteSets, TLC

VARIABLES
    jacksheet,       \* the jacksheet table: rows [port, label, electrode]
    pairs,           \* what create_pairs / create_monopolar_pairs last returned
    contacts,        \* ElectrodeConfig.contacts
    sense_channels,  \* ElectrodeConfig.sense_channels
    stim_channels,   \* ElectrodeConfig.stim_channels
    version,         \* ElectrodeConfig.version
    name,            \* ElectrodeConfig.name
    subject,         \* ElectrodeConfig.subject
    csv_file,        \* the text of the CSV configuration file, a list of lines
    files,           \* the names of the files that exist
    reader,          \* where a read_config_file call in progress stands
    written,         \* the model that the last to_csv call serialized
    calls,           \* log of the calls made so far, with their arguments
    st,              \* the SeriesTransformation object
    signal,          \* the last signal call: its recording and what it returned
    op,              \* the operation that ran last
    err              \* the exception the last operation raised, or "none"

vars == <<jacksheet, pairs, contacts, sense_channels, stim_channels, version,
          name, subject, csv_file, files, reader, written, calls, st, signal, op,
          err>>

(***************************************************************************)
(* Bounds of the model.                                                    *)
(***************************************************************************)
\* longest jacksheet
MaxContacts == 3

None == <<>>

RECURSIVE SeqSum(_)
SeqSum(s) == IF s = <<>> THEN 0 ELSE Head(s) + SeqSum(Tail(s))

Range(s) == {s[i] : i \in DOMAIN s}

(***************************************************************************)
(* bptools/pairs.py                                                        *)
(***************************************************************************)
\* Number of channels in one MUX
_ODIN_MUX_CHANNELS == 32

_mux(n) == (n - 1) \div _ODIN_MUX_CHANNELS

_mux_filter_swapped(c1, c2) == IF _mux(c1) = _mux(c2) THEN None ELSE <<c1, c2>>

\* a pair <<c1, c2>>, or None for the code's (None, None)
_mux_filter(c1, c2) == IF _mux(c1) = _mux(c2) THEN <<c1, c2>> ELSE None

\* jacksheet.electrode.unique(): the electrodes in order of first appearance
RECURSIVE Unique(_, _)
Unique(s, seen) ==
    IF s = <<>> THEN <<>>
    ELSE IF Head(s) \in seen THEN Unique(Tail(s), seen)
         ELSE <<Head(s)>> \o Unique(Tail(s), seen \cup {Head(s)})

Electrodes(js) == Unique([i \in DOMAIN js |-> js[i].electrode], {})

IsGroup(row, group) == row.electrode = group

\* jacksheet[jacksheet.electrode == group].index: the group's ports, in
\* jacksheet order
ElIndex(js, group) ==
    LET el == SelectSeq(js, LAMBDA row : IsGroup(row, group))
    IN  [i \in DOMAIN el |-> el[i].port]

\* the loop "for j in range(i)" of create_pairs; i and j are 1-based here
RECURSIVE Distal(_, _, _, _)
Distal(el, i, j, c) ==
    IF j >= i \/ c # None THEN c
    ELSE Distal(el, i, j + 1, _mux_filter(el[i], el[j]))

\* the candidate of contact i: its successor, the first contact when i is the
\* last (el.index[i + 1] raises IndexError), else the first earlier contact
\* that passes the MUX filter
Candidate(el, i) ==
    LET adjacent == IF i + 1 <= Len(el)
                    THEN _mux_filter(el[i], el[i + 1])
                    ELSE _mux_filter(el[i], el[1])
    IN  Distal(el, i, 1, adjacent)

\* "if c1 is not None and [c1, c2] not in contacts: contacts.append([c1, c2])"
AppendPair(cs, c) ==
    IF c # None /\ c \notin Range(cs) THEN Append(cs, c) ELSE cs

\* the loop "for i in range(len(el))"
RECURSIVE ContactLoop(_, _, _)
ContactLoop(el, i, cs) ==
    IF i > Len(el) THEN cs
    ELSE ContactLoop(el, i + 1, AppendPair(cs, Candidate(el, i)))

\* the loop "for group in groups"
RECURSIVE GroupLoop(_, _, _)
GroupLoop(js, groups, cs) ==
    IF groups = <<>> THEN cs
    ELSE GroupLoop(js, Tail(groups),
                   ContactLoop(ElIndex(js, Head(groups)), 1, cs))

\* the list of [c1, c2] that create_pairs hands to _contacts_to_dataframe
PairContacts(js) == GroupLoop(js, Electrodes(js), <<>>)

HasPort(js, p) == \E i \in DOMAIN js : js[i].port = p

\* jacksheet.loc[port].label
LabelAt(js, p) == js[CHOOSE i \in DOMAIN js : js[i].port = p].label

\* _contacts_to_dataframe(jacksheet, contacts): np.array([])[:, 0] raises
\* IndexError for an empty list, jacksheet.loc raises KeyError for a port that
\* is not in the index
_contacts_to_dataframe(js, cs) ==
    IF cs = <<>> THEN [raised |-> "IndexError", rows |-> <<>>]
    ELSE LET allzero == \A k \in DOMAIN cs : cs[k][2] = 0
             known == /\ \A k \in DOMAIN cs : HasPort(js, cs[k][1])
                      /\ allzero \/ \A k \in DOMAIN cs : HasPort(js, cs[k][2])
             col1(k) == LabelAt(js, cs[k][1])
             col2(k) == IF allzero THEN "CR" ELSE LabelAt(js, cs[k][2])
         IN  IF ~known THEN [raised |-> "KeyError", rows |-> <<>>]
             ELSE [raised |-> "none",
                   rows |-> [k \in DOMAIN cs |->
                       [pair |-> col1(k) \o "-" \o col2(k),
                        label1 |-> col1(k),
                        label2 |-> col2(k),
                        contact1 |-> cs[k][1],
                        contact2 |-> cs[k][2],
                        mux |-> _mux(k)]]]

create_pairs(js) == _contacts_to_dataframe(js, PairContacts(js))

create_monopolar_pairs_one_mux(js, common_ref) ==
    LET kept == SelectSeq(js, LAMBDA r : _mux(r.port) = _mux(js[1].port))
    IN  _contacts_to_dataframe(js, [i \in DOMAIN kept |-> <<kept[i].port, common_ref>>])

\* create_monopolar_pairs(jacksheet_filename, common_ref)
create_monopolar_pairs(js, common_ref) ==
    _contacts_to_dataframe(js, [i \in DOMAIN js |-> <<js[i].port, common_ref>>])

(***************************************************************************)
(* bptools/odin/config.py: the data model                                  *)
(***************************************************************************)
Contact(label, port, area, description) ==
    [label |-> label, port |-> port, area |-> area, description |-> description]

SenseChannel(nm, contact, ref, description) ==
    [name |-> nm, contact |-> contact, ref |-> ref, description |-> description]

StimChannel(nm, anode, cathode) ==
    [name |-> nm, anode |-> anode, cathode |-> cathode]

\* the state of an ElectrodeConfig instance, and what an operation on it raised
Config(raised, v, n, s, cs, ss, ts) ==
    [raised |-> raised, version |-> v, name |-> n, subject |-> s,
     contacts |-> cs, sense_channels |-> ss, stim_channels |-> ts]

\* ElectrodeConfig.__init__ without a filename
NewConfig == Config("none", "1.2", "", "", <<>>, <<>>, <<>>)

\* the name of a sense channel made from a row of pairs
SenseName(scheme, row) ==
    IF scheme = "monopolar" THEN row.label1 \o "CR" ELSE row.label1 \o row.label2

SenseOfRowSwapped(scheme, row) ==
    SenseChannel(SenseName(scheme, row), row.contact2, row.contact1, row.pair)

SenseOfRow(scheme, row) ==
    SenseChannel(SenseName(scheme, row), row.contact1, row.contact2, row.pair)

\* ElectrodeConfig.from_jacksheet(filename, subject, scheme, area): an
\* exception of the pair generator leaves the caller without a configuration
from_jacksheet(js, subj, scheme, area) ==
    LET cs == [i \in DOMAIN js |->
                  Contact(js[i].label, js[i].port, area,
                          "Jackbox number " \o ToString(js[i].port))]
        df == IF scheme = "bipolar" THEN create_pairs(js)
              ELSE IF scheme = "monopolar" THEN create_monopolar_pairs(js, 0)
              ELSE [raised |-> "AssertionError", rows |-> <<>>]
    IN  IF df.raised # "none"
        THEN Config(df.raised, "1.2", "", subj, <<>>, <<>>, <<>>)
        ELSE Config("none", "1.2", "", subj, cs,
                    [k \in DOMAIN df.rows |-> SenseOfRow(scheme, df.rows[k])],
                    <<>>)

StimNameReversed(anode_label, cathode_label) == cathode_label \o "_" \o anode_label

\* "{}_{}".format(anode_label, cathode_label)
StimName(anode_label, cathode_label) == anode_label \o "_" \o cathode_label

RECURSIVE StimLoopWithoutElif(_, _, _, _, _, _)
StimLoopWithoutElif(cs, i, anode_label, cathode_label, anode, cathode) ==
    IF i > Len(cs) THEN None
    ELSE LET a == IF cs[i].label = anode_label THEN <<cs[i].port>> ELSE anode
             c == IF cs[i].label = cathode_label THEN <<cs[i].port>> ELSE cathode
         IN  IF a # None /\ c # None
             THEN <<StimChannel(StimName(anode_label, cathode_label), a[1], c[1])>>
             ELSE StimLoopWithoutElif(cs, i + 1, anode_label, cathode_label, a, c)

\* one pass of "for contact in self.contacts" of add_stim_channel, from
\* contact i on; anode and cathode are None or <<port>>. The result is the
\* channel to append, or None when the loop ends without a break
RECURSIVE StimLoop(_, _, _, _, _, _)
StimLoop(cs, i, anode_label, cathode_label, anode, cathode) ==
    IF i > Len(cs) THEN None
    ELSE LET a == IF cs[i].label = anode_label THEN <<cs[i].port>> ELSE anode
             c == IF cs[i].label # anode_label /\ cs[i].label = cathode_label
                  THEN <<cs[i].port>> ELSE cathode
         IN  IF a # None /\ c # None
             THEN <<StimChannel(StimName(anode_label, cathode_label), a[1], c[1])>>
             ELSE StimLoop(cs, i + 1, anode_label, cathode_label, a, c)

add_stim_channel_unchecked(cfg, anode_label, cathode_label) ==
    LET found == StimLoop(cfg.contacts, 1, anode_label, cathode_label, None, None)
    IN  IF found = None
        THEN [cfg EXCEPT !.raised = "ContactNotFoundError",
                         !.stim_channels =
                             Append(@, StimChannel(StimName(anode_label, cathode_label), 0, 0))]
        ELSE [cfg EXCEPT !.raised = "none",
                         !.stim_channels = Append(@, found[1])]

\* ElectrodeConfig.add_stim_channel(anode_label, cathode_label)
add_stim_channel(cfg, anode_label, cathode_label) ==
    LET found == StimLoop(cfg.contacts, 1, anode_label, cathode_label, None, None)
    IN  IF found = None
        THEN [cfg EXCEPT !.raised = "ContactNotFoundError"]
        ELSE [cfg EXCEPT !.raised = "none",
                         !.stim_channels = Append(@, found[1])]

\* "for channel in stim_channels: ec.add_stim_channel(*channel)": the first
\* exception ends make_odin_config
RECURSIVE AddStimChannels(_, _)
AddStimChannels(cfg, chans) ==
    IF chans = <<>> \/ cfg.raised # "none" THEN cfg
    ELSE AddStimChannels(add_stim_channel(cfg, Head(chans)[1], Head(chans)[2]),
                         Tail(chans))

GoodLeadContactOnly(scheme, good_leads, c) == c.contact \in good_leads

\* the test of the good_leads filter of make_odin_config
GoodLead(scheme, good_leads, c) ==
    LET ref == IF scheme = "bipolar" THEN c.ref ELSE c.contact
    IN  c.contact \in good_leads /\ ref \in good_leads

\* "if good_leads is not None: ... ec.sense_channels = new_sense_channels";
\* good_leads is None or <<set of ports>>
FilterGoodLeads(cfg, scheme, good_leads) ==
    IF good_leads = None THEN cfg
    ELSE [cfg EXCEPT !.sense_channels =
             SelectSeq(@, LAMBDA c : GoodLead(scheme, good_leads[1], c))]

(***************************************************************************)
(* bptools/odin/config.py: the CSV codec. A file is a list of lines and a  *)
(* line the list of its comma-separated fields.                            *)
(***************************************************************************)
\* the largest integer that the model parses
MaxInt == 9

\* the surface areas of the model, in thousandths of a mm^2
Areas == {1, 500}

Pad2(n) == IF n < 10 THEN "0" \o ToString(n) ELSE ToString(n)

\* _num_to_bank_label(num): banks A..D of 64 channels, numbered CH01..CH64
_num_to_bank_label(num) ==
    LET b == (num - 1) \div 64
        bank == IF b = 0 THEN "A" ELSE IF b = 1 THEN "B" ELSE IF b = 2 THEN "C" ELSE "D"
        number == IF num % 64 = 0 THEN 64 ELSE num % 64
    IN  bank \o "-CH" \o Pad2(number)

\* _iencode(number, 'csv'): str(number)
_iencode(number) == ToString(number)

\* _fencode(number, 'csv'): "{:.03f}".format(number); areas are counted in
\* thousandths of a mm^2
_fencode(area) == "0." \o (IF area < 100 THEN "0" ELSE "") \o Pad2(area)

\* '#{}#'.format(text)
Hashed(text) == "#" \o text \o "#"

\* the header lines of _export
ExportHeader(cfg) ==
    << <<"ODINConfigurationVersion:", "#1.2#">>,
       <<"ConfigurationName:", cfg.name>>,
       <<"SubjectID:", cfg.subject>>,
       <<"Contacts:">> >>

\* the line of the contact at list position n + 1 = k
ExportContact(cfg, k) ==
    LET jbox_num == k
    IN  <<cfg.contacts[k].label, _iencode(jbox_num), _iencode(jbox_num),
          _fencode(cfg.contacts[k].area),
          "#Electrode " \o _num_to_bank_label(jbox_num) \o " jack box "
              \o ToString(jbox_num) \o "#">>

\* Python's list index self.contacts[chan.contact - 1] as a position of the
\* 1-based list: 0 when it raises IndexError, the last contact for index -1
ContactIndex(cfg, chan) ==
    LET n == Len(cfg.contacts)
        i == chan.contact - 1
    IN  IF i >= n \/ i < 0 - n THEN 0
        ELSE IF i >= 0 THEN i + 1 ELSE n + i + 1

\* the line of a sense channel
ExportSense(cfg, chan) ==
    <<cfg.contacts[ContactIndex(cfg, chan)].label, chan.name,
      _iencode(chan.contact), _iencode(chan.ref), "x", Hashed(chan.description)>>

\* StimChannel.config_entry: three lines
config_entry(chan) ==
    << <<"StimChannel:", chan.name, "x", "# #">>,
       <<"Anodes:", _iencode(chan.anode), "#">>,
       <<"Cathodes:", _iencode(chan.cathode), "#">> >>

RECURSIVE Flatten(_)
Flatten(ss) == IF ss = <<>> THEN <<>> ELSE Head(ss) \o Flatten(Tail(ss))

\* the Python int n in an attribute that the model holds as a string
IntValue(n) == "int(" \o ToString(n) \o ")"

\* the attribute holds a Python int: it has no encode() and '{:s}' does not
\* format it
IsIntValue(x) == \E n \in 0..MaxInt : x = IntValue(n)

\* what writing the model raises: AttributeError for the label of a contact
\* or the name of a sense channel that is an int, IndexError for a sense
\* channel whose contact is past the end of the contacts, ValueError for the
\* name of a stim channel that is an int
ExportRaises(cfg) ==
    LET bad == {i \in DOMAIN cfg.sense_channels :
                    \/ ContactIndex(cfg, cfg.sense_channels[i]) = 0
                    \/ IsIntValue(cfg.sense_channels[i].name)}
        first == CHOOSE i \in bad : \A k \in bad : i <= k
    IN  IF \E k \in DOMAIN cfg.contacts : IsIntValue(cfg.contacts[k].label)
        THEN "AttributeError"
        ELSE IF bad # {}
             THEN IF ContactIndex(cfg, cfg.sense_channels[first]) = 0
                  THEN "IndexError" ELSE "AttributeError"
        ELSE IF \E i \in DOMAIN cfg.stim_channels : IsIntValue(cfg.stim_channels[i].name)
             THEN "ValueError"
        ELSE "none"

\* ElectrodeConfig._export('csv') and to_csv(): the lines of the file, or
\* what was raised
to_csv(cfg) ==
    IF ExportRaises(cfg) # "none"
    THEN [raised |-> ExportRaises(cfg), lines |-> <<>>]
    ELSE [raised |-> "none",
          lines |->
             ExportHeader(cfg)
             \o [k \in DOMAIN cfg.contacts |-> ExportContact(cfg, k)]
             \o << <<"SenseChannelSubclasses:">>, <<"SenseChannels:">> >>
             \o [i \in DOMAIN cfg.sense_channels |->
                    ExportSense(cfg, cfg.sense_channels[i])]
             \o << <<"StimulationChannelSubclasses:">>, <<"StimulationChannels:">> >>
             \o Flatten([i \in DOMAIN cfg.stim_channels |->
                            config_entry(cfg.stim_channels[i])])
             \o << <<"REF:", "0", "Common">>, <<"EOF">> >>]

\* the version strings that occur in configuration files
\* a filename is the list of its pieces, an extension being one piece
CsvName == <<"conf", ".csv">>

BinName == <<"conf", ".bin">>

Filenames == {CsvName, BinName, <<"conf", ".txt">>, <<"conf">>}

\* filename.endswith(ext)
endswith(filename, ext) == filename # <<>> /\ filename[Len(filename)] = ext

\* filename.replace(old, new): every occurrence is replaced
replace(filename, old, new) ==
    [i \in DOMAIN filename |-> IF filename[i] = old THEN new ELSE filename[i]]

Versions == {"1.2", "1.3"}

\* f.readline().strip().split(','): at the end of the file readline returns ''
getline(lines, pos) == IF pos \in DOMAIN lines THEN lines[pos] ELSE <<"">>

\* "Subclasses:" in ','.join(row)
IsSubclasses(row) ==
    \E i \in DOMAIN row :
        row[i] \in {"SenseChannelSubclasses:", "StimulationChannelSubclasses:"}

\* iterlines() from line pos on: the rows it yields and the line after the
\* header that follows the marker; at the end of the file it yields [''] for
\* ever (hang)
RECURSIVE iterlines(_, _, _)
iterlines(lines, pos, rows) ==
    IF pos > Len(lines) THEN [hang |-> TRUE, rows |-> rows, next |-> pos]
    ELSE IF IsSubclasses(lines[pos])
         THEN [hang |-> FALSE, rows |-> rows, next |-> pos + 2]
         ELSE iterlines(lines, pos + 1, Append(rows, lines[pos]))

\* pd.read_csv skips blank lines; with names given, a buffer without rows
\* is a frame without rows
NonBlank(rows) == SelectSeq(rows, LAMBDA r : r # <<"">>)

\* the field spells an integer
IsInt(f) == \E n \in 0..MaxInt : ToString(n) = f

\* the integer that a field spells, or the field itself
ParseInt(f) == IF IsInt(f) THEN CHOOSE n \in 0..MaxInt : ToString(n) = f ELSE f

\* field k of row i as pd.read_csv returns it with no dtype given: a column
\* in which every field spells an integer is a column of integers, any other
\* column keeps its strings
Infer(rows, k, i) ==
    IF \A j \in DOMAIN rows : IsInt(rows[j][k]) THEN ParseInt(rows[i][k]) ELSE rows[i][k]

\* the area that a field spells, in thousandths, or the field itself
ParseArea(f) ==
    IF \E a \in Areas : _fencode(a) = f
    THEN CHOOSE a \in Areas : _fencode(a) = f
    ELSE f

\* getline()[1].split('#')[1] of the version line: no second piece without '#'
HasVersion(row) == Len(row) >= 2 /\ \E v \in Versions : row[2] = Hashed(v)

VersionOf(row) == CHOOSE v \in Versions : row[2] = Hashed(v)

\* the same for a column of labels, names or descriptions: the integers are
\* Python ints, not strings
InferText(rows, k, i) ==
    IF \A j \in DOMAIN rows : IsInt(rows[j][k])
    THEN IntValue(ParseInt(rows[i][k]))
    ELSE rows[i][k]

\* names=['label', 'port', 'port2', 'area', 'description'], port2 dropped
ContactOfRow(rows, i) ==
    Contact(InferText(rows, 1, i), Infer(rows, 2, i), ParseArea(rows[i][4]),
            InferText(rows, 5, i))

\* names=['primary_name', 'name', 'contact', 'ref', 'x', 'description'],
\* primary_name and x dropped
SenseOfCsvRow(rows, i) ==
    SenseChannel(InferText(rows, 2, i), Infer(rows, 3, i), Infer(rows, 4, i),
                 InferText(rows, 6, i))

\* names=['name', 'anode', 'cathode']
StimOfRow(rows, i) ==
    StimChannel(InferText(rows, 1, i), Infer(rows, 2, i), Infer(rows, 3, i))

\* the loop that reads three lines at a time and keeps field 1 of each, until
\* a line without a field 1 raises IndexError
RECURSIVE StimTriples(_, _, _)
StimTriples(lines, pos, rows) ==
    IF \E k \in 0..2 : Len(getline(lines, pos + k)) < 2 THEN rows
    ELSE StimTriples(lines, pos + 3,
                     Append(rows, <<lines[pos][2], lines[pos + 1][2], lines[pos + 2][2]>>))

\* the body of read_config_file once the files are known to exist: cfg is
\* the instance before the call. Every assignment made before an exception
\* stays.
ReadCsv(cfg, lines) ==
    LET l1 == getline(lines, 1)
        l2 == getline(lines, 2)
        l3 == getline(lines, 3)
        c1 == IF HasVersion(l1) THEN [cfg EXCEPT !.version = VersionOf(l1)] ELSE cfg
        c2 == [c1 EXCEPT !.name = l2[2]]
        c3 == [c2 EXCEPT !.subject = l3[2]]
        cit == iterlines(lines, 5, <<>>)
        crows == NonBlank(cit.rows)
        c4 == [c3 EXCEPT !.contacts = [i \in DOMAIN crows |-> ContactOfRow(crows, i)]]
        sit == iterlines(lines, cit.next, <<>>)
        srows == NonBlank(sit.rows)
        c5 == [c4 EXCEPT !.sense_channels = [i \in DOMAIN srows |-> SenseOfCsvRow(srows, i)]]
        trows == StimTriples(lines, sit.next, <<>>)
        c6 == [c5 EXCEPT !.stim_channels = [i \in DOMAIN trows |-> StimOfRow(trows, i)]]
    IN  IF ~HasVersion(l1) THEN [cfg EXCEPT !.raised = "IndexError"]
        ELSE IF Len(l2) < 2 THEN [c1 EXCEPT !.raised = "IndexError"]
        ELSE IF Len(l3) < 2 THEN [c2 EXCEPT !.raised = "IndexError"]
        ELSE IF cit.hang THEN [c3 EXCEPT !.raised = "hang"]
        ELSE IF \E i \in DOMAIN crows : Len(crows[i]) # 5
             THEN [c3 EXCEPT !.raised = "ParserError"]
        ELSE IF sit.hang THEN [c4 EXCEPT !.raised = "hang"]
        ELSE IF \E i \in DOMAIN srows : Len(srows[i]) # 6
             THEN [c4 EXCEPT !.raised = "ParserError"]
        ELSE [c6 EXCEPT !.raised = "none"]

\* the names that read_config_file takes for the two files, or None for a
\* filename that ends in neither extension
ConfigFiles(filename) ==
    IF endswith(filename, ".bin")
    THEN <<[_csv_file |-> replace(filename, ".bin", ".csv"), _bin_file |-> filename]>>
    ELSE IF endswith(filename, ".csv")
         THEN <<[_csv_file |-> filename, _bin_file |-> replace(filename, ".bin", ".csv")]>>
         ELSE None

read_config_file_any_extension(cfg, filename, fs, lines) ==
    IF CsvName \notin fs \/ BinName \notin fs
    THEN [cfg EXCEPT !.raised = "AssertionError"]
    ELSE ReadCsv(cfg, lines)

\* read_config_file(filename) on the instance cfg, with the files fs on the
\* disk and lines the text of the CSV file
read_config_file(cfg, filename, fs, lines) ==
    LET names == ConfigFiles(filename)
    IN  IF names = None THEN [cfg EXCEPT !.raised = "RuntimeError"]
        ELSE IF names[1]._csv_file \notin fs \/ names[1]._bin_file \notin fs
             THEN [cfg EXCEPT !.raised = "AssertionError"]
             ELSE ReadCsv(cfg, lines)

\* read_config_file step by step: pc is the statement the call stands at,
\* section the list that iterlines() is read for, pos the line that
\* f.readline() returns next, buf the rows written to the buffer, row the row
\* that iterlines() has just yielded
Reader(pc, section, pos, buf, row) ==
    [pc |-> pc, section |-> section, pos |-> pos, buf |-> buf, row |-> row]

\* no call in progress
Idle == Reader("idle", "none", 0, <<>>, <<>>)

\* the position after f.readline(): at the end of the file it stays there
Advance(lines, pos) == IF pos <= Len(lines) THEN pos + 1 ELSE pos

\* blank rows that the buffer keeps at its end
MaxBlank == 2

RECURSIVE TrailingBlank(_)
TrailingBlank(buf) ==
    IF buf = <<>> \/ buf[Len(buf)] # <<"">> THEN 0
    ELSE 1 + TrailingBlank(SubSeq(buf, 1, Len(buf) - 1))

\* buf.write(','.join(line) + '\n'); the blank rows at the end of the buffer
\* are counted up to MaxBlank
BufWrite(buf, row) ==
    IF row = <<"">> /\ TrailingBlank(buf) >= MaxBlank THEN buf ELSE Append(buf, row)

(***************************************************************************)
(* bptools/transform.py. A matrix is the list of its rows; the inverse of  *)
(* an integer matrix is kept exactly, as the adjugate (num) over the       *)
(* determinant (den).                                                      *)
(***************************************************************************)
\* ports of the device: the referencing matrix is NumPorts x NumPorts
NumPorts == 3
\* longest list of sense channels in a configuration file
MaxSense == 2

Zeros(n) == [i \in 1..n |-> [j \in 1..n |-> 0]]

SetRefPositive(m, chan) ==
    IF chan.ref # 0 THEN [m EXCEPT ![chan.contact][chan.ref] = 1] ELSE m

\* "if ref_num != 0: tr_mat[port_num - 1, ref_num - 1] = -1"
SetRef(m, chan) ==
    IF chan.ref # 0 THEN [m EXCEPT ![chan.contact][chan.ref] = -1] ELSE m

\* the loop of get_monopolar_to_bipolar_matrix over the sense channels
RECURSIVE FillMatrix(_, _)
FillMatrix(m, ss) ==
    IF ss = <<>> THEN m
    ELSE FillMatrix(SetRef([m EXCEPT ![Head(ss).contact][Head(ss).contact] = 1],
                           Head(ss)),
                    Tail(ss))

get_monopolar_to_bipolar_matrix(ss) == FillMatrix(Zeros(NumPorts), ss)

\* np.any(tr_mat != 0, axis=1) and np.any(tr_mat != 0, axis=0)
non_zero_mask_row(m) == {i \in DOMAIN m : \E j \in DOMAIN m[i] : m[i][j] # 0}

non_zero_mask_column_of_rows(m) == {i \in DOMAIN m : \E j \in DOMAIN m[i] : m[i][j] # 0}

non_zero_mask_column(m) == {j \in DOMAIN m : \E i \in DOMAIN m : m[i][j] # 0}

\* the members of a set of integers in increasing order
RECURSIVE Sorted(_)
Sorted(S) ==
    IF S = {} THEN <<>>
    ELSE LET lo == CHOOSE x \in S : \A y \in S : x <= y
         IN  <<lo>> \o Sorted(S \ {lo})

ReducedToPrimaries(m) ==
    LET rs == Sorted(non_zero_mask_row(m))
    IN  [i \in DOMAIN rs |-> [j \in DOMAIN rs |-> m[rs[i]][rs[j]]]]

\* tr_mat[non_zero_mask_row, :][:, non_zero_mask_column]
Reduced(m) ==
    LET rs == Sorted(non_zero_mask_row(m))
        cs == Sorted(non_zero_mask_column(m))
    IN  [i \in DOMAIN rs |-> [j \in DOMAIN cs |-> m[rs[i]][cs[j]]]]

NumCols(m) == IF m = <<>> THEN 0 ELSE Len(m[1])

Drop(s, k) == [i \in 1..(Len(s) - 1) |-> IF i < k THEN s[i] ELSE s[i + 1]]

\* m without row r and column c
Minor(m, r, c) == LET rows == Drop(m, r) IN [i \in DOMAIN rows |-> Drop(rows[i], c)]

Sign(k) == IF k % 2 = 0 THEN 1 ELSE -1

RECURSIVE DetOfDiagonal(_)
DetOfDiagonal(m) ==
    IF m = <<>> THEN 1 ELSE m[1][1] * DetOfDiagonal(Minor(m, 1, 1))

\* the determinant of a square matrix, expanded along the first row
RECURSIVE Det(_)
Det(m) ==
    IF m = <<>> THEN 1
    ELSE SeqSum([j \in DOMAIN m |-> Sign(1 + j) * m[1][j] * Det(Minor(m, 1, j))])

AdjugateUntransposed(m) ==
    [i \in DOMAIN m |-> [j \in DOMAIN m |-> Sign(i + j) * Det(Minor(m, i, j))]]

\* the transpose of the matrix of cofactors: Det(m) times the inverse of m
Adjugate(m) ==
    [i \in DOMAIN m |-> [j \in DOMAIN m |-> Sign(i + j) * Det(Minor(m, j, i))]]

linalg_inv_doubled(m) ==
    IF Len(m) # NumCols(m) THEN None
    ELSE IF Det(m) = 0 THEN None
    ELSE <<[num |-> [i \in DOMAIN m |-> [j \in DOMAIN m |-> 2 * Adjugate(m)[i][j]]],
            den |-> Det(m)]>>

linalg_inv_unchecked(m) ==
    IF Len(m) # NumCols(m) THEN None
    ELSE <<[num |-> Adjugate(m), den |-> Det(m)]>>

\* np.linalg.inv(tr_mat): None for the LinAlgError of a matrix that is not
\* square or is singular, else <<inverse>>
linalg_inv(m) ==
    IF Len(m) # NumCols(m) THEN None
    ELSE IF Det(m) = 0 THEN None
    ELSE <<[num |-> Adjugate(m), den |-> Det(m)]>>

\* monopolar_trans_matrix_via_inverse(): bipolar_to_monopolar_matrix
monopolar_trans_matrix_via_inverse(ss) ==
    linalg_inv(Reduced(get_monopolar_to_bipolar_matrix(ss)))

\* matrix times column vector
MatVec(m, v) == [i \in DOMAIN m |-> SeqSum([j \in DOMAIN v |-> m[i][j] * v[j]])]

\* SeriesTransformation.__init__
NewTransform ==
    [bipolar_to_monopolar_matrix |-> None,
     monopolar_to_bipolar_matrix |-> None,
     elec_conf |-> None,
     montage_data |-> None,
     excluded_montage_data |-> None,
     net_montage_data |-> None,
     montage_initialized |-> FALSE,
     bp_except_excluded_mask |-> None,
     bipolar_pairs_signal |-> "bipolar_pairs_signal"]

\* monopolar_possible()
monopolar_possible(t) == t.bipolar_to_monopolar_matrix # None

FirstCol(row, x) ==
    LET S == {j \in DOMAIN row : row[j] = x}
    IN  IF S = {} THEN 0 ELSE CHOOSE j \in S : \A k \in S : j <= k

\* bp_idx_list of __get_implied_montage: for every row of the matrix that
\* holds a 1 and a -1, the ports of the first 1 and of the first -1
ImpliedPairs(m) ==
    LET rows == SelectSeq([i \in DOMAIN m |-> i],
                          LAMBDA i : FirstCol(m[i], 1) # 0 /\ FirstCol(m[i], -1) # 0)
    IN  [k \in DOMAIN rows |-> <<FirstCol(m[rows[k]], 1), FirstCol(m[rows[k]], -1)>>]

\* np.where(contacts_recarray.jack_box_num == port)[0][0], 1-based; 0 when it
\* raises IndexError
JackBoxIndex(cs, port) ==
    LET S == {i \in DOMAIN cs : cs[i].port = port}
    IN  IF S = {} THEN 0 ELSE CHOOSE i \in S : \A k \in S : i <= k

\* one row of a montage recarray; the indices are 0-based as in the code
MontageRow(ch0_idx, ch1_idx, contact_name) ==
    [ch0_idx |-> ch0_idx, ch1_idx |-> ch1_idx, contact_name |-> contact_name]

\* __get_implied_montage()
get_implied_montage(cs, ss) ==
    LET bp == ImpliedPairs(get_monopolar_to_bipolar_matrix(ss))
    IN  IF \E k \in DOMAIN bp : JackBoxIndex(cs, bp[k][1]) = 0 \/ JackBoxIndex(cs, bp[k][2]) = 0
        THEN [raised |-> "IndexError", data |-> <<>>]
        ELSE [raised |-> "none",
              data |-> [k \in DOMAIN bp |->
                  MontageRow(JackBoxIndex(cs, bp[k][1]) - 1,
                             JackBoxIndex(cs, bp[k][2]) - 1,
                             cs[JackBoxIndex(cs, bp[k][1])].label \o "-"
                                 \o cs[JackBoxIndex(cs, bp[k][2])].label)]]

\* the part of __initialize_montage after montage_data is set: the excluded
\* pairs, the net montage and montage_initialized = True
FinishMontage(t, data, excluded_montage_file) ==
    IF excluded_montage_file # None
    THEN LET ex == excluded_montage_file[1]
             names == {ex[i].contact_name : i \in DOMAIN ex}
             mask == [i \in DOMAIN data |-> data[i].contact_name \notin names]
         IN  [t EXCEPT !.montage_data = <<data>>,
                       !.excluded_montage_data = <<ex>>,
                       !.bp_except_excluded_mask = <<mask>>,
                       !.net_montage_data =
                           <<SelectSeq(data, LAMBDA r : r.contact_name \notin names)>>,
                       !.montage_initialized = TRUE]
    ELSE [t EXCEPT !.montage_data = <<data>>,
                   !.net_montage_data = <<data>>,
                   !.montage_initialized = TRUE]

initialize_montage_from_file_only(t, cs, ss, montage_file, excluded_montage_file) ==
    IF montage_file = None THEN [raised |-> "none", t |-> t]
    ELSE [raised |-> "none",
          t |-> FinishMontage(t, montage_file[1], excluded_montage_file)]

\* __initialize_montage(montage_file, excluded_montage_file); a file is None
\* or <<the montage that read_montage_json returns for it>>
initialize_montage(t, cs, ss, montage_file, excluded_montage_file) ==
    IF monopolar_possible(t)
    THEN IF montage_file = None THEN [raised |-> "none", t |-> t]
         ELSE [raised |-> "none",
               t |-> FinishMontage(t, montage_file[1], excluded_montage_file)]
    ELSE LET implied == get_implied_montage(cs, ss)
         IN  IF implied.raised # "none" THEN [raised |-> implied.raised, t |-> t]
             ELSE [raised |-> "none",
                   t |-> FinishMontage(t, implied.data, excluded_montage_file)]

\* the end of create(): which implementation bipolar_pairs_signal is bound to
SelectImpl(t) ==
    IF t.bipolar_to_monopolar_matrix = None
    THEN [t EXCEPT !.bipolar_pairs_signal = "full_bp_mode_impl"]
    ELSE IF t.montage_initialized
         THEN [t EXCEPT !.bipolar_pairs_signal = "mixed_mode_impl"]
         ELSE t

\* SeriesTransformation.create(electrode_config_file, montage_file,
\* excluded_montage_file) on a configuration file with these lines: the
\* configuration read, the transformation, and what was raised
create(lines, montage_file, excluded_montage_file) ==
    LET cfg == ReadCsv(NewConfig, lines)
        t1 == [NewTransform EXCEPT
                 !.elec_conf = <<cfg>>,
                 !.bipolar_to_monopolar_matrix =
                     monopolar_trans_matrix_via_inverse(cfg.sense_channels),
                 !.monopolar_to_bipolar_matrix =
                     <<get_monopolar_to_bipolar_matrix(cfg.sense_channels)>>]
        im == initialize_montage(t1, cfg.contacts, cfg.sense_channels,
                                 montage_file, excluded_montage_file)
    IN  IF cfg.raised # "none" THEN [raised |-> cfg.raised, cfg |-> cfg, t |-> None]
        ELSE IF im.raised # "none" THEN [raised |-> im.raised, cfg |-> cfg, t |-> None]
        ELSE [raised |-> "none", cfg |-> cfg, t |-> <<SelectImpl(im.t)>>]

\* num_all_bp: the number of pairs, or -1 for its RuntimeError
num_all_bp(t) == IF t.montage_initialized THEN Len(t.montage_data[1]) ELSE -1

\* bipolar_possible(): num_all_bp does not raise
bipolar_possible(t) == num_all_bp(t) # -1

\* what a signal method returns: the vector num / den, with a new leading axis
\* when the array was indexed by None, or the exception raised
Signal(raised, num, den, newaxis) ==
    [raised |-> raised, num |-> num, den |-> den, newaxis |-> newaxis]

Value(x) == Signal("none", x, 1, FALSE)

Raise(e) == Signal(e, <<>>, 1, FALSE)

transform_signal_zeroed(t, x) ==
    IF t.bipolar_to_monopolar_matrix = None THEN Value([i \in DOMAIN x |-> 0])
    ELSE LET inv == t.bipolar_to_monopolar_matrix[1]
         IN  IF Len(inv.num) # Len(x) THEN Raise("ValueError")
             ELSE Signal("none", MatVec(inv.num, x), inv.den, FALSE)

\* transform_signal(ens_signal_array): the recording itself without a
\* matrix, else bipolar_to_monopolar_matrix * ens_signal_array
transform_signal(t, x) ==
    IF t.bipolar_to_monopolar_matrix = None THEN Value(x)
    ELSE LET inv == t.bipolar_to_monopolar_matrix[1]
         IN  IF Len(inv.num) # Len(x) THEN Raise("ValueError")
             ELSE Signal("none", MatVec(inv.num, x), inv.den, FALSE)

\* a[idx] of numpy for a 0-based index: 0 when it raises IndexError, else the
\* 1-based position
ArrayIndex(n, idx) ==
    IF idx >= n \/ idx < 0 - n THEN 0 ELSE IF idx >= 0 THEN idx + 1 ELSE n + idx + 1

\* _bipolar_pairs_signal_mixed_mode_impl
mixed_mode_impl(t, x, exclude_bipolar_pairs) ==
    LET mono == transform_signal(t, x)
        data == IF exclude_bipolar_pairs THEN t.net_montage_data[1] ELSE t.montage_data[1]
        n == Len(mono.num)
    IN  IF mono.raised # "none" THEN mono
        ELSE IF \E i \in DOMAIN data :
                    ArrayIndex(n, data[i].ch0_idx) = 0 \/ ArrayIndex(n, data[i].ch1_idx) = 0
        THEN Raise("IndexError")
        ELSE Signal("none",
                    [i \in DOMAIN data |->
                        mono.num[ArrayIndex(n, data[i].ch0_idx)]
                        - mono.num[ArrayIndex(n, data[i].ch1_idx)]],
                    mono.den, FALSE)

\* _bipolar_pairs_signal_full_bp_mode_impl: ens_signal_array[mask] selects the
\* rows of a boolean mask and adds an axis for the mask None
full_bp_mode_impl(t, x, exclude_bipolar_pairs) ==
    IF exclude_bipolar_pairs
    THEN IF t.bp_except_excluded_mask = None THEN Signal("none", x, 1, TRUE)
         ELSE LET mask == t.bp_except_excluded_mask[1]
              IN  IF Len(mask) # Len(x) THEN Raise("IndexError")
                  ELSE LET kept == SelectSeq([i \in DOMAIN x |-> i], LAMBDA i : mask[i])
                       IN  Value([k \in DOMAIN kept |-> x[kept[k]]])
    ELSE Value(x)

bipolar_pairs_signal_passthrough(t, x, exclude_bipolar_pairs) ==
    IF t.bipolar_pairs_signal = "full_bp_mode_impl"
    THEN full_bp_mode_impl(t, x, exclude_bipolar_pairs)
    ELSE IF t.bipolar_pairs_signal = "mixed_mode_impl"
         THEN mixed_mode_impl(t, x, exclude_bipolar_pairs)
         ELSE Value(x)

\* st.bipolar_pairs_signal(...): the method of the class raises RuntimeError,
\* create() may have bound one of the two implementations in its place
bipolar_pairs_signal(t, x, exclude_bipolar_pairs) ==
    IF t.bipolar_pairs_signal = "full_bp_mode_impl"
    THEN full_bp_mode_impl(t, x, exclude_bipolar_pairs)
    ELSE IF t.bipolar_pairs_signal = "mixed_mode_impl"
         THEN mixed_mode_impl(t, x, exclude_bipolar_pairs)
         ELSE Raise("RuntimeError")

(***************************************************************************)
(* The state after construction and the operations.                        *)
(***************************************************************************)
\* the ElectrodeConfig instance held in the variables
Self == Config(err, version, name, subject, contacts, sense_channels, stim_channels)

\* the instance becomes cfg
Becomes(cfg) ==
    /\ version' = cfg.version
    /\ name' = cfg.name
    /\ subject' = cfg.subject
    /\ contacts' = cfg.contacts
    /\ sense_channels' = cfg.sense_channels
    /\ stim_channels' = cfg.stim_channels

InitConfig(cfg) ==
    /\ version = cfg.version
    /\ name = cfg.name
    /\ subject = cfg.subject
    /\ contacts = cfg.contacts
    /\ sense_channels = cfg.sense_channels
    /\ stim_channels = cfg.stim_channels

NoPairs == [raised |-> "none", rows |-> <<>>]

InitRest ==
    /\ csv_file = <<>>
    /\ files = {}
    /\ reader = Idle
    /\ written = None
    /\ calls = <<>>
    /\ st = None
    /\ signal = None
    /\ op = "init"
    /\ err = "none"

(***************************************************************************)
(* SpecPairs: a jacksheet file, and one call that builds pairs or a         *)
(* configuration from it. The calls are functions of the jacksheet alone,  *)
(* so a behaviour is one call on a fresh jacksheet.                        *)
(***************************************************************************)
\* ports on both sides of the boundary between the first two MUXes
PortPool == {1, 2, 3, _ODIN_MUX_CHANNELS + 1}

ElectrodeNames == {"A", "B"}

DistinctPorts(f) == \A i, j \in DOMAIN f : i # j => f[i][1] # f[j][1]

\* read_jacksheet: the label of a contact is its electrode and its number on
\* the electrode, the index is the port
SheetOf(f) ==
    [i \in DOMAIN f |->
        [port |-> f[i][1],
         electrode |-> f[i][2],
         label |-> f[i][2] \o ToString(Cardinality({k \in 1..i : f[k][2] = f[i][2]}))]]

JackSheets ==
    {SheetOf(f) : f \in {g \in UNION {[1..n -> PortPool \X ElectrodeNames] : n \in 1..MaxContacts} :
                            DistinctPorts(g)}}

Ports(js) == {js[i].port : i \in DOMAIN js}

\* the arguments of the calls
Schemes == {"bipolar", "monopolar"}

\* no reference, the port of a contact, a port that is not in the jacksheet
CommonRefs(js) == {0, js[1].port, _ODIN_MUX_CHANNELS + 2}

GoodLeads(js) == {None} \cup {<<S>> : S \in SUBSET Ports(js)}

\* stim_channels: None or <<list of (anode label, cathode label)>>
StimArgs(js) == {None, << << <<js[1].label, js[Len(js)].label>> >> >>}

InitPairs ==
    /\ jacksheet \in JackSheets
    /\ pairs = NoPairs
    /\ InitConfig(NewConfig)
    /\ InitRest

CreatePairs ==
    /\ op = "init"
    /\ pairs' = create_pairs(jacksheet)
    /\ op' = "create_pairs"
    /\ err' = pairs'.raised
    /\ UNCHANGED <<jacksheet, contacts, sense_channels, stim_channels, version,
                   name, subject, csv_file, files, reader, written, calls, st, signal>>

CreateMonopolarPairs ==
    \E common_ref \in CommonRefs(jacksheet) :
        /\ op = "init"
        /\ pairs' = create_monopolar_pairs(jacksheet, common_ref)
        /\ op' = "create_monopolar_pairs"
        /\ err' = pairs'.raised
        /\ calls' = <<[common_ref |-> common_ref]>>
        /\ UNCHANGED <<jacksheet, contacts, sense_channels, stim_channels, version,
                       name, subject, csv_file, files, reader, written, st, signal>>

\* ec = ElectrodeConfig.from_jacksheet(...): the variables hold the new
\* instance when the call returns one
FromJacksheet ==
    \E scheme \in Schemes \cup {"invalid"}, area \in Areas :
        LET cfg == from_jacksheet(jacksheet, "subject", scheme, area)
        IN  /\ op = "init"
            /\ op' = "from_jacksheet"
            /\ err' = cfg.raised
            /\ IF cfg.raised = "none" THEN Becomes(cfg)
               ELSE UNCHANGED <<contacts, sense_channels, stim_channels, version,
                                name, subject>>
            /\ calls' = <<[scheme |-> scheme, area |-> area]>>
            /\ UNCHANGED <<jacksheet, pairs, csv_file, files, reader, written, st, signal>>

\* make_odin_config(jacksheet, "S_N", area, stim_channels=..., good_leads=...,
\* scheme=..., format='csv'): the configuration it builds and the text it
\* returns, or the first exception
make_odin_config(js, area, stim_args, good_leads, scheme) ==
    LET ec0 == [from_jacksheet(js, "S", scheme, area) EXCEPT !.name = "N"]
        ec1 == IF stim_args = None THEN ec0 ELSE AddStimChannels(ec0, stim_args[1])
        ec2 == FilterGoodLeads(ec1, scheme, good_leads)
        out == to_csv(ec2)
    IN  IF ec0.raised # "none" THEN [raised |-> ec0.raised, ec |-> ec0, lines |-> <<>>]
        ELSE IF ec1.raised # "none" THEN [raised |-> ec1.raised, ec |-> ec1, lines |-> <<>>]
        ELSE [raised |-> out.raised, ec |-> ec2, lines |-> out.lines]

MakeOdinConfig ==
    \E scheme \in Schemes, area \in Areas, stim_args \in StimArgs(jacksheet),
       good_leads \in GoodLeads(jacksheet) :
        LET r == make_odin_config(jacksheet, area, stim_args, good_leads, scheme)
        IN  /\ op = "init"
            /\ op' = "make_odin_config"
            /\ err' = r.raised
            /\ IF r.raised = "none"
               THEN Becomes(r.ec) /\ csv_file' = r.lines /\ written' = <<r.ec>>
               ELSE UNCHANGED <<contacts, sense_channels, stim_channels, version,
                                name, subject, csv_file, written>>
            /\ calls' = <<[scheme |-> scheme, area |-> area, stim_channels |-> stim_args,
                           good_leads |-> good_leads]>>
            /\ UNCHANGED <<jacksheet, pairs, files, reader, st, signal>>

NextPairs ==
    \/ CreatePairs
    \/ CreateMonopolarPairs
    \/ FromJacksheet
    \/ MakeOdinConfig

SpecPairs == InitPairs /\ [][NextPairs]_vars

(***************************************************************************)
(* SpecStim: a configuration with fixed contacts and a sequence of         *)
(* add_stim_channel calls.                                                 *)
(***************************************************************************)
\* longest contact list of the configuration
MaxStimContacts == 3
\* number of add_stim_channel calls in a behaviour
MaxCalls == 2

ContactLabels == {"A1", "A2"}

\* the labels that the calls name; C1 is the label of no contact
CallLabels == ContactLabels \cup {"C1"}

\* contact lists, the empty one and ones with a repeated label included; the
\* contact at position i sits on port i
StimContacts ==
    {[i \in DOMAIN f |-> Contact(f[i], i, 500, "Jackbox number " \o ToString(i))] :
         f \in UNION {[1..n -> ContactLabels] : n \in 0..MaxStimContacts}}

InitStim ==
    /\ jacksheet = <<>>
    /\ pairs = NoPairs
    /\ contacts \in StimContacts
    /\ sense_channels = <<SenseChannel("A1A2", 1, 2, "A1-A2")>>
    /\ stim_channels = <<>>
    /\ version = "1.2"
    /\ name = ""
    /\ subject = ""
    /\ InitRest

AddStimChannel ==
    \E anode_label \in CallLabels, cathode_label \in CallLabels :
        LET r == add_stim_channel(Self, anode_label, cathode_label)
        IN  /\ Len(calls) < MaxCalls
            /\ Becomes(r)
            /\ err' = r.raised
            /\ op' = "add_stim_channel"
            /\ calls' = Append(calls, [anode_label |-> anode_label,
                                       cathode_label |-> cathode_label,
                                       raised |-> r.raised])
            /\ UNCHANGED <<jacksheet, pairs, csv_file, files, reader, written, st, signal>>

NextStim == AddStimChannel

SpecStim == InitStim /\ [][NextStim]_vars

(***************************************************************************)
(* SpecCodec: a configuration model, written to a CSV file and read back.  *)
(***************************************************************************)
\* longest contact list of a model; its ports are drawn from one port more
MaxCodecContacts == 2
\* longest sense channel list of a model
MaxCodecSense == 1
\* number of to_csv and read_config_file calls in a behaviour
MaxCodecOps == 2

CodecPorts == 1..(MaxCodecContacts + 1)

\* contact lists with distinct ports in any order, as from_jacksheet labels
\* and describes them
CodecContacts ==
    {[i \in DOMAIN f |-> Contact("A" \o ToString(i), f[i], 500,
                                 "Jackbox number " \o ToString(f[i]))] :
         f \in {g \in UNION {[1..n -> CodecPorts] : n \in 0..MaxCodecContacts} :
                    \A i, j \in DOMAIN g : i # j => g[i] # g[j]}}

\* sense channels named after their ports, and one whose name is a numeral
CodecSenseChannel ==
    {SenseChannel("S" \o ToString(c) \o ToString(r), c, r,
                  "P" \o ToString(c) \o "-" \o ToString(r)) :
         c \in CodecPorts, r \in 0..1}
    \cup {SenseChannel("7", 1, 0, "P1-0")}

CodecSense == UNION {[1..n -> CodecSenseChannel] : n \in 0..MaxCodecSense}

CodecStim ==
    {<<>>, <<StimChannel("A1_A2", 1, 2)>>,
     <<StimChannel("A1_A2", 1, 2), StimChannel("A2_A1", 2, 1)>>}

InitCodec ==
    /\ jacksheet = <<>>
    /\ pairs = NoPairs
    /\ contacts \in CodecContacts
    /\ sense_channels \in CodecSense
    /\ stim_channels \in CodecStim
    /\ version \in Versions
    /\ name = "N"
    /\ subject = "S"
    /\ csv_file = <<>>
    /\ files = {BinName}
    /\ reader = Idle
    /\ written = None
    /\ calls = <<>>
    /\ st = None
    /\ signal = None
    /\ op = "init"
    /\ err = "none"

Call(operation, filename) == [op |-> operation, filename |-> filename]

\* to_csv(outfile) with outfile the CSV file: the file is written unless
\* _export raises
ToCsv ==
    LET out == to_csv(Self)
    IN  /\ Len(calls) < MaxCodecOps
        /\ op' = "to_csv"
        /\ calls' = Append(calls, Call("to_csv", CsvName))
        /\ err' = out.raised
        /\ IF out.raised = "none"
           THEN /\ csv_file' = out.lines
                /\ files' = files \cup {CsvName}
                /\ written' = <<Self>>
           ELSE UNCHANGED <<csv_file, files, written>>
        /\ UNCHANGED <<jacksheet, pairs, contacts, sense_channels, stim_channels,
                       version, name, subject, reader, st, signal>>

\* self.read_config_file(filename)
ReadConfigFile ==
    \E filename \in Filenames :
        LET r == read_config_file(Self, filename, files, csv_file)
        IN  /\ Len(calls) < MaxCodecOps
            /\ op' = "read_config_file"
            /\ calls' = Append(calls, Call("read_config_file", filename))
            /\ err' = r.raised
            /\ Becomes(r)
            /\ UNCHANGED <<jacksheet, pairs, csv_file, files, reader, written, st, signal>>

NextCodec ==
    \/ ToCsv
    \/ ReadConfigFile

SpecCodec == InitCodec /\ [][NextCodec]_vars

(***************************************************************************)
(* SpecFiles: an instance, new or populated, reads and writes with the CSV *)
(* file and the binary file each present or missing.                       *)
(***************************************************************************)
\* the configurations whose text the CSV file on the disk may hold
DiskModels ==
    {Config("none", "1.2", "N", "S",
            [i \in 1..n |-> Contact("A" \o ToString(i), i, 500,
                                    "Jackbox number " \o ToString(i))],
            <<SenseChannel("A1CR", 1, 0, "A1-CR")>>, ts) :
         n \in 1..2, ts \in {<<>>, <<StimChannel("A1_A1", 1, 1)>>}}

\* an instance that was populated from another configuration
Populated ==
    Config("none", "1.3", "M", "T", <<Contact("B1", 1, 500, "Jackbox number 1")>>,
           <<SenseChannel("B1CR", 1, 0, "B1-CR")>>, <<>>)

InitFiles ==
    /\ jacksheet = <<>>
    /\ pairs = NoPairs
    /\ \E cfg \in {NewConfig, Populated} : InitConfig(cfg)
    /\ files \in SUBSET {CsvName, BinName}
    /\ IF CsvName \in files
       THEN csv_file \in {to_csv(m).lines : m \in DiskModels}
       ELSE csv_file = <<>>
    /\ reader = Idle
    /\ written = None
    /\ calls = <<>>
    /\ st = None
    /\ signal = None
    /\ op = "init"
    /\ err = "none"

SpecFiles == InitFiles /\ [][NextCodec]_vars

(***************************************************************************)
(* SpecReader: one read_config_file call on a new instance, statement by   *)
(* statement, on a CSV file that is complete, cut short, or short of one   *)
(* line. The call runs in one thread, so a statement that can run does.    *)
(***************************************************************************)
\* lines without line k
WithoutLine(lines, k) ==
    [i \in 1..(Len(lines) - 1) |-> IF i < k THEN lines[i] ELSE lines[i + 1]]

\* the files that to_csv writes, their beginnings, and the same with one line
\* taken out
ReaderFiles ==
    LET whole == {to_csv(m).lines : m \in DiskModels}
    IN  UNION {{SubSeq(f, 1, n) : n \in 0..Len(f)} \cup
               {WithoutLine(f, k) : k \in DOMAIN f} : f \in whole}

InitReader ==
    /\ jacksheet = <<>>
    /\ pairs = NoPairs
    /\ InitConfig(NewConfig)
    /\ csv_file \in ReaderFiles
    /\ files = {CsvName, BinName}
    /\ reader = Idle
    /\ written = None
    /\ calls = <<>>
    /\ st = None
    /\ signal = None
    /\ op = "init"
    /\ err = "none"

\* the call raises e: the assignments made so far stay
ReaderRaises(e) ==
    /\ reader' = [reader EXCEPT !.pc = "raised"]
    /\ err' = e

\* read_config_file(filename) up to "with open(self._csv_file, 'r') as f"
OpenCsv ==
    /\ reader.pc = "idle"
    /\ op = "init"
    /\ read_config_file(Self, CsvName, files, csv_file).raised # "AssertionError"
    /\ reader' = Reader("header", "none", 1, <<>>, <<>>)
    /\ op' = "read_config_file"
    /\ calls' = <<Call("read_config_file", CsvName)>>
    /\ UNCHANGED <<jacksheet, pairs, contacts, sense_channels, stim_channels, version,
                   name, subject, csv_file, files, written, st, signal, err>>

\* the header: version, name and subject from field 1 of three lines, then
\* the line 'Contacts:'
ReadHeader ==
    LET l1 == getline(csv_file, 1)
        l2 == getline(csv_file, 2)
        l3 == getline(csv_file, 3)
        pos == Advance(csv_file, Advance(csv_file, Advance(csv_file, Advance(csv_file, 1))))
    IN  /\ reader.pc = "header"
        /\ IF ~HasVersion(l1)
           THEN ReaderRaises("IndexError") /\ UNCHANGED <<version, name, subject>>
           ELSE /\ version' = VersionOf(l1)
                /\ IF Len(l2) < 2
                   THEN ReaderRaises("IndexError") /\ UNCHANGED <<name, subject>>
                   ELSE /\ name' = l2[2]
                        /\ IF Len(l3) < 2
                           THEN ReaderRaises("IndexError") /\ UNCHANGED subject
                           ELSE /\ subject' = l3[2]
                                /\ reader' = Reader("iterlines", "contacts", pos, <<>>, <<>>)
                                /\ UNCHANGED err
        /\ UNCHANGED <<jacksheet, pairs, contacts, sense_channels, stim_channels,
                       csv_file, files, written, calls, st, signal, op>>

\* the end of a "for line in iterlines()" loop: the buffer is parsed into
\* the list of the section
EndSection(pos) ==
    LET rows == NonBlank(reader.buf)
    IN  IF reader.section = "contacts"
        THEN IF \E i \in DOMAIN rows : Len(rows[i]) # 5
             THEN ReaderRaises("ParserError") /\ UNCHANGED <<contacts, sense_channels>>
             ELSE /\ contacts' = [i \in DOMAIN rows |-> ContactOfRow(rows, i)]
                  /\ reader' = Reader("iterlines", "sense_channels", pos, <<>>, <<>>)
                  /\ UNCHANGED <<sense_channels, err>>
        ELSE IF \E i \in DOMAIN rows : Len(rows[i]) # 6
             THEN ReaderRaises("ParserError") /\ UNCHANGED <<contacts, sense_channels>>
             ELSE /\ sense_channels' = [i \in DOMAIN rows |-> SenseOfCsvRow(rows, i)]
                  /\ reader' = Reader("stim_channels", "stim_channels", pos, <<>>, <<>>)
                  /\ UNCHANGED <<contacts, err>>

\* one turn of "while True" in iterlines(): a row is read; on a row with
\* "Subclasses:" one more line is read and the generator stops, else the row
\* is yielded
IterLines ==
    LET row == getline(csv_file, reader.pos)
        pos == Advance(csv_file, reader.pos)
    IN  /\ reader.pc = "iterlines"
        /\ IF IsSubclasses(row)
           THEN EndSection(Advance(csv_file, pos))
           ELSE /\ reader' = [reader EXCEPT !.pc = "yield", !.pos = pos, !.row = row]
                /\ UNCHANGED <<contacts, sense_channels, err>>
        /\ UNCHANGED <<jacksheet, pairs, stim_channels, version, name, subject,
                       csv_file, files, written, calls, st, signal, op>>

\* the body of "for line in iterlines()": the row goes to the buffer
ForLine ==
    /\ reader.pc = "yield"
    /\ reader' = [reader EXCEPT !.pc = "iterlines",
                                !.buf = BufWrite(reader.buf, reader.row),
                                !.row = <<>>]
    /\ UNCHANGED <<jacksheet, pairs, contacts, sense_channels, stim_channels, version,
                   name, subject, csv_file, files, written, calls, st, signal, op, err>>

\* one turn of the loop of the stimulation channels: field 1 of three lines,
\* or the IndexError that ends the loop and the call
ReadStim ==
    LET lines == [k \in 1..3 |-> getline(csv_file, reader.pos + k - 1)]
    IN  /\ reader.pc = "stim_channels"
        /\ IF \E k \in 1..3 : Len(lines[k]) < 2
           THEN /\ stim_channels' = [i \in DOMAIN reader.buf |-> StimOfRow(reader.buf, i)]
                /\ reader' = [reader EXCEPT !.pc = "done"]
           ELSE /\ reader' = [reader EXCEPT
                       !.pos = reader.pos + 3,
                       !.buf = Append(reader.buf, <<lines[1][2], lines[2][2], lines[3][2]>>)]
                /\ UNCHANGED stim_channels
        /\ UNCHANGED <<jacksheet, pairs, contacts, sense_channels, version, name, subject,
                       csv_file, files, written, calls, st, signal, op, err>>

NextReader ==
    \/ OpenCsv
    \/ ReadHeader
    \/ IterLines
    \/ ForLine
    \/ ReadStim

SpecReader == InitReader /\ [][NextReader]_vars /\ WF_vars(NextReader)

(***************************************************************************)
(* SpecTransform: a configuration file, the SeriesTransformation built     *)
(* from it, and a signal method applied to a recording. The methods are     *)
(* functions of the transformation and the recording, so a behaviour is    *)
(* one call on a new transformation.                                       *)
(***************************************************************************)
\* the contacts of a configuration file: ports 1..n in order
FileContacts(n) ==
    [i \in 1..n |-> Contact("A" \o ToString(i), i, 500, "Jackbox number " \o ToString(i))]

FileSenseChannel ==
    {SenseChannel("S" \o ToString(c) \o ToString(r), c, r,
                  "P" \o ToString(c) \o "-" \o ToString(r)) :
         c \in 1..NumPorts, r \in 0..NumPorts}

\* sense channel lists in the order of their ports, a port possibly the
\* primary of two channels
FileSense ==
    {ss \in UNION {[1..n -> FileSenseChannel] : n \in 1..MaxSense} :
         \A i, j \in DOMAIN ss : i < j => ss[i].contact <= ss[j].contact}

\* the models whose file to_csv writes: with all ports of the matrix as
\* contacts, or with all but the last
FileModels ==
    {m \in {Config("none", "1.2", "N", "S", FileContacts(n), ss,
                   <<StimChannel("A1_A2", 1, 2)>>) :
                n \in {NumPorts - 1, NumPorts}, ss \in FileSense} :
         to_csv(m).raised = "none"}

\* what read_montage_json returns for the montage files
Montage == <<MontageRow(0, 1, "A1-A2")>>

MontageFiles == {None, <<Montage>>}

\* monopolar potentials of k contacts: one contact alone, or a ramp
MonopolarVectors(k) ==
    {[i \in 1..k |-> IF i = j THEN 1 ELSE 0] : j \in 1..k} \cup {[i \in 1..k |-> i]}

\* the recordings: what the channels of the stored referencing matrix measure
\* for monopolar potentials v, or a recording of one channel for a transformation
\* without configuration
Recordings(t) ==
    IF t.monopolar_to_bipolar_matrix = None THEN {[x |-> <<1>>, v |-> None]}
    ELSE LET fwd == Reduced(t.monopolar_to_bipolar_matrix[1])
         IN  {[x |-> MatVec(fwd, v), v |-> <<v>>] : v \in MonopolarVectors(NumCols(fwd))}

InitTransform ==
    /\ jacksheet = <<>>
    /\ pairs = NoPairs
    /\ InitConfig(NewConfig)
    /\ csv_file \in {to_csv(m).lines : m \in FileModels}
    /\ files = {CsvName}
    /\ reader = Idle
    /\ written = None
    /\ calls = <<>>
    /\ st = None
    /\ signal = None
    /\ op = "init"
    /\ err = "none"

\* st = SeriesTransformation()
Construct ==
    /\ st = None
    /\ op = "init"
    /\ st' = <<NewTransform>>
    /\ op' = "SeriesTransformation"
    /\ err' = "none"
    /\ UNCHANGED <<jacksheet, pairs, contacts, sense_channels, stim_channels, version,
                   name, subject, csv_file, files, reader, written, calls, signal>>

\* st = SeriesTransformation.create(electrode_config_file, montage_file,
\* excluded_montage_file); the variables of the configuration hold what
\* ElectrodeConfig read from the file
Create ==
    \E montage_file \in MontageFiles, excluded_montage_file \in MontageFiles :
        LET r == create(csv_file, montage_file, excluded_montage_file)
        IN  /\ st = None
            /\ op = "init"
            /\ st' = r.t
            /\ Becomes(r.cfg)
            /\ calls' = <<[montage_file |-> montage_file,
                           excluded_montage_file |-> excluded_montage_file]>>
            /\ op' = "create"
            /\ err' = r.raised
            /\ UNCHANGED <<jacksheet, pairs, csv_file, files, reader, written, signal>>

SignalCall(method, rec, exclude_bipolar_pairs, out) ==
    [method |-> method, x |-> rec.x, v |-> rec.v,
     exclude_bipolar_pairs |-> exclude_bipolar_pairs, out |-> out]

\* st.transform_signal(ens_signal_array)
TransformSignal ==
    /\ st # None
    /\ signal = None
    /\ \E rec \in Recordings(st[1]) :
          LET out == transform_signal(st[1], rec.x)
          IN  /\ signal' = <<SignalCall("transform_signal", rec, FALSE, out)>>
              /\ op' = "transform_signal"
              /\ err' = out.raised
    /\ UNCHANGED <<jacksheet, pairs, contacts, sense_channels, stim_channels, version,
                   name, subject, csv_file, files, reader, written, calls, st>>

\* st.bipolar_pairs_signal(ens_signal_array, exclude_bipolar_pairs)
BipolarPairsSignal ==
    /\ st # None
    /\ signal = None
    /\ \E rec \in Recordings(st[1]), exclude_bipolar_pairs \in BOOLEAN :
          LET out == bipolar_pairs_signal(st[1], rec.x, exclude_bipolar_pairs)
          IN  /\ signal' = <<SignalCall("bipolar_pairs_signal", rec,
                                        exclude_bipolar_pairs, out)>>
              /\ op' = "bipolar_pairs_signal"
              /\ err' = out.raised
    /\ UNCHANGED <<jacksheet, pairs, contacts, sense_channels, stim_channels, version,
                   name, subject, csv_file, files, reader, written, calls, st>>

\* st.elec_conf.sense_channels.pop(): the configuration of the transformation
\* is the instance in the variables, nothing else of st is assigned
PopSenseChannel ==
    /\ st # None
    /\ st[1].elec_conf # None
    /\ signal = None
    /\ op' = "sense_channels.pop"
    /\ IF sense_channels = <<>>
       THEN err' = "IndexError" /\ UNCHANGED <<sense_channels, st>>
       ELSE /\ err' = "none"
            /\ sense_channels' = SubSeq(sense_channels, 1, Len(sense_channels) - 1)
            /\ st' = <<[st[1] EXCEPT !.elec_conf = <<[st[1].elec_conf[1] EXCEPT
                                       !.sense_channels = sense_channels']>>]>>
    /\ UNCHANGED <<jacksheet, pairs, contacts, stim_channels, version, name, subject,
                   csv_file, files, reader, written, calls, signal>>

NextTransform ==
    \/ Construct
    \/ Create
    \/ PopSenseChannel
    \/ TransformSignal
    \/ BipolarPairsSignal

SpecTransform == InitTransform /\ [][NextTransform]_vars

(***************************************************************************)
(* Properties of the pair generator.                                       *)
(***************************************************************************)
Returned == op = "create_pairs" /\ pairs.raised = "none"

\* two contacts of one electrode lie in different MUXes
CrossesMux(js) ==
    \E i, j \in DOMAIN js :
        /\ js[i].electrode = js[j].electrode
        /\ (js[i].port - 1) \div 32 # (js[j].port - 1) \div 32

\* C1: every pair that create_pairs returns has its two ports in one MUX,
\* (contact1 - 1) div 32 = (contact2 - 1) div 32
C1_SameMux ==
    Returned =>
        \A k \in DOMAIN pairs.rows :
            (pairs.rows[k].contact1 - 1) \div 32 = (pairs.rows[k].contact2 - 1) \div 32

\* create_pairs returned two pairs or more for an electrode that crosses MUXes
C1_Witness == Returned /\ CrossesMux(jacksheet) /\ Len(pairs.rows) >= 2

\* C2: no pair that create_pairs returns has two identical ports
C2_NoSelfPair ==
    Returned => \A k \in DOMAIN pairs.rows : pairs.rows[k].contact1 # pairs.rows[k].contact2

\* C3: create_pairs returns no unordered pair of ports twice
C3_NoRepeatedPair ==
    Returned =>
        \A k, l \in DOMAIN pairs.rows :
            k # l => {pairs.rows[k].contact1, pairs.rows[k].contact2}
                     # {pairs.rows[l].contact1, pairs.rows[l].contact2}

Generated == op \in {"from_jacksheet", "make_odin_config"} /\ err = "none"

\* C4: in a configuration generated from a jacksheet no port is the primary
\* contact of two sense channels
C4_UniquePrimary ==
    Generated =>
        \A k, l \in DOMAIN sense_channels :
            k # l => sense_channels[k].contact # sense_channels[l].contact

\* make_odin_config returned a configuration whose good_leads filter removed a
\* sense channel and left two or more
C4_Witness ==
    /\ op = "make_odin_config"
    /\ err = "none"
    /\ Len(sense_channels) >= 2
    /\ Len(sense_channels) < Len(contacts)

(***************************************************************************)
(* Properties of add_stim_channel.                                         *)
(***************************************************************************)
Labels(cs) == {cs[i].label : i \in DOMAIN cs}

LastCall == calls[Len(calls)]

\* C6: add_stim_channel raises ContactNotFoundError when the anode label or
\* the cathode label is the label of no contact, and then leaves the stim
\* channels, the contacts and the sense channels as they were
C6_NotFoundRaises ==
    [][(/\ op' = "add_stim_channel"
        /\ Len(calls') = Len(calls) + 1
        /\ \/ calls'[Len(calls')].anode_label \notin Labels(contacts)
           \/ calls'[Len(calls')].cathode_label \notin Labels(contacts))
       => (/\ err' = "ContactNotFoundError"
           /\ stim_channels' = stim_channels
           /\ contacts' = contacts
           /\ sense_channels' = sense_channels)]_vars

\* a call with an unknown anode and a known cathode, after a call that
\* appended a channel
C6_Witness ==
    /\ op = "add_stim_channel"
    /\ Len(calls) >= 2
    /\ LastCall.anode_label \notin Labels(contacts)
    /\ LastCall.cathode_label \in Labels(contacts)
    /\ Len(stim_channels) = 1

Succeeded == SelectSeq(calls, LAMBDA c : c.raised = "none")

PortsOf(cs, label) == {cs[i].port : i \in {k \in DOMAIN cs : cs[k].label = label}}

\* C7: the stim channels are the successful add_stim_channel calls in call
\* order, each named <anode_label>_<cathode_label> with the ports of contacts
\* that carry these labels; the calls change neither contacts nor sense
\* channels
C7_StimChannelsAreCalls ==
    /\ [](/\ Len(stim_channels) = Len(Succeeded)
          /\ \A i \in DOMAIN stim_channels :
                /\ stim_channels[i].name
                       = Succeeded[i].anode_label \o "_" \o Succeeded[i].cathode_label
                /\ stim_channels[i].anode \in PortsOf(contacts, Succeeded[i].anode_label)
                /\ stim_channels[i].cathode \in PortsOf(contacts, Succeeded[i].cathode_label))
    /\ [][contacts' = contacts /\ sense_channels' = sense_channels]_vars

\* a call that appended a channel after a call that raised
C7_Witness ==
    /\ op = "add_stim_channel"
    /\ Len(calls) = 2
    /\ calls[1].raised = "ContactNotFoundError"
    /\ calls[2].raised = "none"
    /\ Len(stim_channels) = 1

(***************************************************************************)
(* Properties of the CSV codec.                                            *)
(***************************************************************************)
\* read_config_file has just read the file that to_csv wrote from the model
\* written[1]
ReadBack ==
    /\ calls = <<Call("to_csv", CsvName), Call("read_config_file", CsvName)>>
    /\ written # None

\* C5: reading back the text of to_csv gives contacts, sense channels and stim
\* channels equal to the written ones, element by element and in order
C5_RoundTrip ==
    ReadBack =>
        LET m == written[1]
        IN  /\ err = "none"
            /\ Len(contacts) = Len(m.contacts)
            /\ \A i \in DOMAIN contacts :
                  /\ contacts[i].label = m.contacts[i].label
                  /\ contacts[i].port = m.contacts[i].port
                  /\ contacts[i].description = m.contacts[i].description
            /\ Len(sense_channels) = Len(m.sense_channels)
            /\ \A i \in DOMAIN sense_channels :
                  /\ sense_channels[i].name = m.sense_channels[i].name
                  /\ sense_channels[i].contact = m.sense_channels[i].contact
                  /\ sense_channels[i].ref = m.sense_channels[i].ref
                  /\ sense_channels[i].description = m.sense_channels[i].description
            /\ Len(stim_channels) = Len(m.stim_channels)
            /\ \A i \in DOMAIN stim_channels :
                  /\ stim_channels[i].name = m.stim_channels[i].name
                  /\ stim_channels[i].anode = m.stim_channels[i].anode
                  /\ stim_channels[i].cathode = m.stim_channels[i].cathode

(***************************************************************************)
(* Properties of the referencing transformation.                           *)
(***************************************************************************)
\* create() has returned a transformation
Created == st # None /\ st[1].elec_conf # None

ConfiguredPorts == {contacts[i].port : i \in DOMAIN contacts}

\* every sense channel has a reference other than 0 and its own contact, no
\* port is the primary of two channels, all ports are contacts
FullBipolar ==
    /\ \A i \in DOMAIN sense_channels :
          /\ sense_channels[i].ref # 0
          /\ sense_channels[i].ref # sense_channels[i].contact
          /\ {sense_channels[i].contact, sense_channels[i].ref} \subseteq ConfiguredPorts
    /\ \A i, j \in DOMAIN sense_channels :
          i # j => sense_channels[i].contact # sense_channels[j].contact

\* C8: create() without a montage on a full-bipolar configuration returns a
\* transformation with monopolar_possible() False and bipolar_possible() True
C8_FullBipolarMode ==
    (op = "create" /\ calls[1].montage_file = None /\ FullBipolar) =>
        /\ err = "none"
        /\ Created
        /\ ~monopolar_possible(st[1])
        /\ bipolar_possible(st[1])

\* create() has returned from a full-bipolar configuration of two channels
\* that reference each other: the reduced matrix is square and singular
C8_Witness ==
    /\ op = "create"
    /\ calls[1].montage_file = None
    /\ FullBipolar
    /\ Len(sense_channels) = 2
    /\ sense_channels[1].ref = sense_channels[2].contact
    /\ sense_channels[2].ref = sense_channels[1].contact
    /\ Created

\* C9: on a transformation that create() returned without an inverse,
\* transform_signal and bipolar_pairs_signal with exclude_bipolar_pairs=False
\* return the recording they were given and raise nothing
C9_PassThrough ==
    (/\ Created
     /\ ~monopolar_possible(st[1])
     /\ signal # None
     /\ ~signal[1].exclude_bipolar_pairs) =>
        signal[1].out = Value(signal[1].x)

\* both methods have returned a recording with a nonzero sample on a
\* transformation without an inverse
C9_Witness ==
    /\ Created
    /\ ~monopolar_possible(st[1])
    /\ signal # None
    /\ signal[1].method = "bipolar_pairs_signal"
    /\ ~signal[1].exclude_bipolar_pairs
    /\ \E i \in DOMAIN signal[1].x : signal[1].x[i] # 0
    /\ signal[1].out.raised = "none"

\* C10: with monopolar_possible(), transform_signal of the recording M'v is v
C10_LeftInverse ==
    (/\ Created
     /\ monopolar_possible(st[1])
     /\ signal # None
     /\ signal[1].method = "transform_signal") =>
        LET v == signal[1].v[1]
            out == signal[1].out
        IN  /\ out.raised = "none"
            /\ Len(out.num) = Len(v)
            /\ \A i \in DOMAIN v : out.num[i] = out.den * v[i]

\* transform_signal has returned on a configuration with a referenced
\* channel, for potentials that differ between the contacts
C10_Witness ==
    /\ Created
    /\ monopolar_possible(st[1])
    /\ \E i \in DOMAIN sense_channels : sense_channels[i].ref # 0
    /\ signal # None
    /\ signal[1].method = "transform_signal"
    /\ signal[1].v[1] = <<1, 2>>
    /\ signal[1].out.raised = "none"

\* create() has returned from the configuration whose sense channels are
\* contact 2 ref 1 and contact 3 ref 1
TwoOnOne ==
    /\ Created
    /\ op = "create"
    /\ [i \in DOMAIN sense_channels |-> <<sense_channels[i].contact, sense_channels[i].ref>>]
           = <<<<2, 1>>, <<3, 1>>>>

\* the matrix that monopolar_trans_matrix_via_inverse inverts
ReducedOf(t) == Reduced(t.monopolar_to_bipolar_matrix[1])

\* C11, as stated: for the sense channels {2 ref 1, 3 ref 1} the reduced
\* matrix is 2x2 and invertible, monopolar_possible() is true and every entry
\* of the stored inverse is 0 or 1
C11_TwoByTwo ==
    TwoOnOne =>
        /\ Len(ReducedOf(st[1])) = 2
        /\ NumCols(ReducedOf(st[1])) = 2
        /\ monopolar_possible(st[1])
        /\ LET inv == st[1].bipolar_to_monopolar_matrix[1]
           IN  \A i \in DOMAIN inv.num : \A j \in DOMAIN inv.num[i] :
                   inv.num[i][j] \in {0, inv.den}

\* C11, amended: for the sense channels {2 ref 1, 3 ref 1} the reduced matrix
\* keeps the column of port 1, so it is 2x3, no inverse is stored and
\* monopolar_possible() is false
C11_TwoByThree ==
    TwoOnOne =>
        /\ Len(ReducedOf(st[1])) = 2
        /\ NumCols(ReducedOf(st[1])) = 3
        /\ st[1].bipolar_to_monopolar_matrix = None
        /\ ~monopolar_possible(st[1])

\* create() has returned from that configuration without a montage file
C11_Witness == TwoOnOne /\ calls[1].montage_file = None

(***************************************************************************)
(* Properties of the files of read_config_file.                            *)
(***************************************************************************)
\* the filename with its extension replaced
Sibling(filename, ext) == [filename EXCEPT ![Len(filename)] = ext]

HasConfigExtension(filename) == endswith(filename, ".csv") \/ endswith(filename, ".bin")

\* this step is a call of read_config_file
ReadStep == op' = "read_config_file" /\ Len(calls') = Len(calls) + 1

\* C12: read_config_file fails and populates no contacts, sense channels or
\* stim channels when the CSV file or its sibling binary file is missing,
\* whichever of the two filenames was passed
C12_MissingFileFails ==
    [][(/\ ReadStep
        /\ HasConfigExtension(calls'[Len(calls')].filename)
        /\ \/ Sibling(calls'[Len(calls')].filename, ".csv") \notin files
           \/ Sibling(calls'[Len(calls')].filename, ".bin") \notin files)
       => (/\ err' # "none"
           /\ contacts' = contacts
           /\ sense_channels' = sense_channels
           /\ stim_channels' = stim_channels)]_vars

\* C13: read_config_file raises for a filename that ends in neither .csv nor
\* .bin and leaves version, name, subject, contacts, sense channels and stim
\* channels as they were
C13_BadExtensionRaises ==
    [][(ReadStep /\ ~HasConfigExtension(calls'[Len(calls')].filename))
       => (/\ err' = "RuntimeError"
           /\ version' = version
           /\ name' = name
           /\ subject' = subject
           /\ contacts' = contacts
           /\ sense_channels' = sense_channels
           /\ stim_channels' = stim_channels)]_vars

\* a populated instance was asked to read a .txt file while both
\* configuration files exist
C13_Witness ==
    /\ op = "read_config_file"
    /\ calls[Len(calls)].filename = <<"conf", ".txt">>
    /\ err = "RuntimeError"
    /\ contacts # <<>>
    /\ {CsvName, BinName} \subseteq files

(***************************************************************************)
(* Properties of the transformation without a montage.                     *)
(***************************************************************************)
\* create() returned a transformation in mixed mode and was given no montage
\* file
MixedWithoutMontage ==
    /\ Created
    /\ monopolar_possible(st[1])
    /\ calls[1].montage_file = None

\* C14: bipolar_pairs_signal raises RuntimeError and returns no data on a
\* transformation created in mixed mode without a montage file, and on a
\* SeriesTransformation that create() did not set up, whatever the recording
\* and the exclude flag
C14_NoMontageRaises ==
    (/\ st # None
     /\ signal # None
     /\ signal[1].method = "bipolar_pairs_signal"
     /\ (~Created \/ MixedWithoutMontage)) =>
        signal[1].out = Raise("RuntimeError")

\* bipolar_pairs_signal was called with the exclude flag set on a
\* transformation in mixed mode that has an excluded-pairs file and no montage
C14_Witness ==
    /\ MixedWithoutMontage
    /\ calls[1].excluded_montage_file # None
    /\ signal # None
    /\ signal[1].method = "bipolar_pairs_signal"
    /\ signal[1].exclude_bipolar_pairs
    /\ err = "RuntimeError"

(***************************************************************************)
(* Properties of the transformation when its configuration changes.        *)
(***************************************************************************)
\* C15: after create() the stored referencing matrix, the stored inverse and
\* the answer of monopolar_possible() are those of the current sense channels
\* of the configuration
C15_MatrixFollowsConfig ==
    Created =>
        /\ st[1].monopolar_to_bipolar_matrix
               = <<get_monopolar_to_bipolar_matrix(sense_channels)>>
        /\ st[1].bipolar_to_monopolar_matrix
               = monopolar_trans_matrix_via_inverse(sense_channels)
        /\ monopolar_possible(st[1])
               = (monopolar_trans_matrix_via_inverse(sense_channels) # None)

(***************************************************************************)
(* Properties of the good_leads filter.                                    *)
(***************************************************************************)
\* make_odin_config has returned and was given good_leads
Filtered == op = "make_odin_config" /\ err = "none" /\ calls[1].good_leads # None

\* the configuration of the jacksheet before stim channels and filter
Unfiltered == from_jacksheet(jacksheet, "S", calls[1].scheme, calls[1].area)

\* C16: with good_leads, make_odin_config keeps exactly the sense channels
\* with contact and ref in the set (bipolar) or with contact in the set
\* (monopolar), in their order, and removes no contact and no stim channel
C16_GoodLeadsFilter ==
    Filtered =>
        LET G == calls[1].good_leads[1]
            keep(c) == IF calls[1].scheme = "bipolar"
                       THEN c.contact \in G /\ c.ref \in G
                       ELSE c.contact \in G
            stim == IF calls[1].stim_channels = None THEN <<>>
                    ELSE calls[1].stim_channels[1]
        IN  /\ sense_channels = SelectSeq(Unfiltered.sense_channels, keep)
            /\ contacts = Unfiltered.contacts
            /\ Len(stim_channels) = Len(stim)
            /\ \A i \in DOMAIN stim :
                  stim_channels[i].name = stim[i][1] \o "_" \o stim[i][2]

\* a bipolar configuration with a stim channel lost a sense channel whose
\* contact is a good lead and whose ref is not, and kept another
C16_Witness ==
    /\ Filtered
    /\ calls[1].scheme = "bipolar"
    /\ stim_channels # <<>>
    /\ sense_channels # <<>>
    /\ \E i \in DOMAIN Unfiltered.sense_channels :
          /\ Unfiltered.sense_channels[i].contact \in calls[1].good_leads[1]
          /\ Unfiltered.sense_channels[i].ref \notin calls[1].good_leads[1]

(***************************************************************************)
(* Properties of the text that to_csv writes.                              *)
(***************************************************************************)
\* to_csv has just written the file from the model written[1]
Wrote == op = "to_csv" /\ err = "none" /\ written # None

\* C17: the line written for each contact carries the port of the contact,
\* twice, and the bank label and jack box number of that port
C17_ContactLinePort ==
    Wrote =>
        \A k \in DOMAIN written[1].contacts :
            LET c == written[1].contacts[k]
                line == csv_file[Len(ExportHeader(written[1])) + k]
            IN  /\ line[1] = c.label
                /\ line[2] = ToString(c.port)
                /\ line[3] = ToString(c.port)
                /\ line[5] = "#Electrode " \o _num_to_bank_label(c.port)
                                 \o " jack box " \o ToString(c.port) \o "#"

\* C18: the header carries version, name and subject of the model, and
\* reading the file back restores the three
C18_HeaderRoundTrip ==
    /\ Wrote =>
          /\ csv_file[1] = <<"ODINConfigurationVersion:", Hashed(written[1].version)>>
          /\ csv_file[2] = <<"ConfigurationName:", written[1].name>>
          /\ csv_file[3] = <<"SubjectID:", written[1].subject>>
    /\ ReadBack =>
          /\ version = written[1].version
          /\ name = written[1].name
          /\ subject = written[1].subject

(***************************************************************************)
(* Properties of the monopolar pairs.                                      *)
(***************************************************************************)
ReturnedMonopolar == op = "create_monopolar_pairs" /\ pairs.raised = "none"

\* C19: create_monopolar_pairs returns one row per jacksheet contact, in
\* jacksheet order, with contact1 the port of the contact and contact2 the
\* common_ref, whatever the MUXes; a monopolar configuration of from_jacksheet
\* has one sense channel per contact, each with ref 0
C19_OneRowPerContact ==
    /\ ReturnedMonopolar =>
          /\ Len(pairs.rows) = Len(jacksheet)
          /\ \A k \in DOMAIN pairs.rows :
                /\ pairs.rows[k].contact1 = jacksheet[k].port
                /\ pairs.rows[k].contact2 = calls[1].common_ref
    /\ (op = "from_jacksheet" /\ err = "none" /\ calls[1].scheme = "monopolar") =>
          /\ Len(sense_channels) = Len(contacts)
          /\ \A k \in DOMAIN sense_channels :
                /\ sense_channels[k].contact = contacts[k].port
                /\ sense_channels[k].ref = 0

\* create_monopolar_pairs returned for a jacksheet with an electrode across
\* two MUXes and a contact as common reference
C19_Witness ==
    /\ ReturnedMonopolar
    /\ CrossesMux(jacksheet)
    /\ calls[1].common_ref # 0
    /\ Len(pairs.rows) >= 2

(***************************************************************************)
(* The pairing rule of create_pairs, stated contact by contact.            *)
(***************************************************************************)
SameMux(a, b) == (a - 1) \div 32 = (b - 1) \div 32

\* the partner that the rule gives to the contact at index i of a group: the
\* successor (the first contact when i is the last) when it shares the MUX,
\* else the earlier contact of lowest index that shares the MUX, else none
RulePartner(el, i) ==
    LET succ == IF i < Len(el) THEN el[i + 1] ELSE el[1]
        earlier == {j \in 1..(i - 1) : SameMux(el[i], el[j])}
        lowest == CHOOSE j \in earlier : \A k \in earlier : j <= k
    IN  IF SameMux(el[i], succ) THEN <<el[i], succ>>
        ELSE IF earlier # {} THEN <<el[i], el[lowest]>>
        ELSE None

\* the pairs of one group in index order, the contacts without partner left out
RuleOfGroup(el) ==
    SelectSeq([i \in DOMAIN el |-> RulePartner(el, i)], LAMBDA c : c # None)

\* the pairs of the groups, in the order in which the groups first appear
RECURSIVE RuleOfGroups(_, _)
RuleOfGroups(js, groups) ==
    IF groups = <<>> THEN <<>>
    ELSE RuleOfGroup(ElIndex(js, Head(groups))) \o RuleOfGroups(js, Tail(groups))

RuleRows(js) == RuleOfGroups(js, Electrodes(js))

RowPairs(rows) == [k \in DOMAIN rows |-> <<rows[k].contact1, rows[k].contact2>>]

\* a contact whose successor and whose earlier contacts are all in other MUXes
Unpaired(js) ==
    \E g \in Range(Electrodes(js)) :
        \E i \in DOMAIN ElIndex(js, g) : RulePartner(ElIndex(js, g), i) = None

\* C20: create_pairs gives each contact the partner of the pairing rule
\* (successor or first contact if in the same MUX, else the lowest earlier
\* contact in the same MUX, else no pair and no error), and the rows are in
\* group order, then index order
C20_PairingRule ==
    op = "create_pairs" =>
        /\ pairs.raised = "none"
        /\ RowPairs(pairs.rows) = RuleRows(jacksheet)

\* the rows of every table that create_pairs returns are those of the rule
PairingRuleOfReturned == Returned => RowPairs(pairs.rows) = RuleRows(jacksheet)

\* create_pairs raises only when the rule gives no contact a partner
RaisesOnlyWithoutPairs ==
    (op = "create_pairs" /\ pairs.raised # "none") =>
        /\ pairs.raised = "IndexError"
        /\ RuleRows(jacksheet) = <<>>
        /\ Unpaired(jacksheet)

(***************************************************************************)
(* The mux column of the pairs table.                                      *)
(***************************************************************************)
\* C21: in every row of the table that create_pairs returns, the mux column
\* is the MUX index of the first member of the row, (contact1 - 1) div 32
C21_MuxOfFirstMember ==
    Returned =>
        \A k \in DOMAIN pairs.rows :
            pairs.rows[k].mux = (pairs.rows[k].contact1 - 1) \div 32

\* the mux column of every returned table is the MUX index of the row number
MuxOfRowNumber ==
    Returned =>
        \A k \in DOMAIN pairs.rows : pairs.rows[k].mux = (k - 1) \div 32

(***************************************************************************)
(* The shape of the reduced referencing matrix.                            *)
(***************************************************************************)
\* create() has just returned a transformation for the sense channels read
JustCreated == Created /\ op = "create"

\* the ports that are the primary contact of a sense channel, and the ports
\* that are the non-zero ref of one
Primaries == {sense_channels[i].contact : i \in DOMAIN sense_channels}

Refs == {sense_channels[i].ref : i \in DOMAIN sense_channels} \ {0}

\* C22, as stated: dropping the all-zero rows and the all-zero columns of the
\* referencing matrix leaves a square matrix, for every list of sense channels
C22_ReducedIsSquare ==
    JustCreated => Len(ReducedOf(st[1])) = NumCols(ReducedOf(st[1]))

\* C22, amended: the reduced matrix has one row for each primary port and one
\* column for each port that is a primary or a non-zero ref, so it is square
\* exactly when every non-zero ref is the primary of some sense channel
C22_ReducedShape ==
    JustCreated =>
        /\ Len(ReducedOf(st[1])) = Cardinality(Primaries)
        /\ NumCols(ReducedOf(st[1])) = Cardinality(Primaries \cup Refs)
        /\ (Len(ReducedOf(st[1])) = NumCols(ReducedOf(st[1]))) <=> (Refs \subseteq Primaries)

\* create() has returned for a channel whose ref is sensed by no channel:
\* the reduced matrix has more columns than rows
C22_Witness ==
    /\ JustCreated
    /\ ~(Refs \subseteq Primaries)
    /\ Len(ReducedOf(st[1])) < NumCols(ReducedOf(st[1]))

(***************************************************************************)
(* Which signals a created transformation can produce.                     *)
(***************************************************************************)
MontageSupplied == calls[1].montage_file # None

\* C23: after create(), bipolar_possible() is true exactly when monopolar
\* reconstruction is impossible (the implied pairing is used) or a montage
\* file was supplied with a possible monopolar reconstruction; so at least
\* one of monopolar_possible() and bipolar_possible() is true
C23_BipolarPossible ==
    Created =>
        /\ bipolar_possible(st[1]) <=>
               \/ ~monopolar_possible(st[1])
               \/ MontageSupplied /\ monopolar_possible(st[1])
        /\ monopolar_possible(st[1]) \/ bipolar_possible(st[1])

\* create() has returned, without a montage file, a transformation that can
\* only give bipolar signals, from the implied pairing
C23_Witness ==
    /\ JustCreated
    /\ ~MontageSupplied
    /\ ~monopolar_possible(st[1])
    /\ bipolar_possible(st[1])
    /\ st[1].montage_data[1] # <<>>

\* create() has returned a transformation that can give both signals
BothPossible ==
    Created /\ MontageSupplied /\ monopolar_possible(st[1]) /\ bipolar_possible(st[1])

\* create() has returned a transformation that can only give monopolar signals
OnlyMonopolar ==
    Created /\ ~MontageSupplied /\ monopolar_possible(st[1]) /\ ~bipolar_possible(st[1])

(***************************************************************************)
(* Termination of read_config_file.                                        *)
(***************************************************************************)
Returns == reader.pc \in {"done", "raised"}

\* the file read holds a line with each of the two section markers
HasMarkers ==
    /\ \E i \in DOMAIN csv_file : csv_file[i] = <<"SenseChannelSubclasses:">>
    /\ \E i \in DOMAIN csv_file : csv_file[i] = <<"StimulationChannelSubclasses:">>

\* C24: read_config_file terminates on every finite CSV file: the end of the
\* file ends the section loop that is active, also in a file without a
\* '...Subclasses:' marker
C24_ReadTerminates == (reader.pc = "header") ~> Returns

\* on a file with both markers the call returns or raises
ReadWithMarkersTerminates == (reader.pc = "header" /\ HasMarkers) ~> Returns

\* the loop of the stimulation channels ends at the end of the file
StimLoopEnds == (reader.pc = "stim_channels") ~> (reader.pc = "done")

\* iterlines() at the end of the file: it yields [''] again and again
AtEndOfFile ==
    /\ reader.pc \in {"iterlines", "yield"}
    /\ reader.pos > Len(csv_file)
    /\ TrailingBlank(reader.buf) = MaxBlank

\* once iterlines() has reached the end of the file, the call stays in it
EndOfFileIsForEver == [][AtEndOfFile => AtEndOfFile']_vars

\* the call statement by statement ends as ReadCsv says, and does not end
\* where ReadCsv says it hangs
ReaderAgrees ==
    LET r == ReadCsv(NewConfig, csv_file)
    IN  /\ reader.pc = "done" => r = Self /\ err = "none"
        /\ reader.pc = "raised" => r = Self /\ err # "none"
        /\ r.raised = "hang" => ~Returns

(***************************************************************************)
(* The entries of the referencing matrix.                                  *)
(***************************************************************************)
\* the referencing matrix that create() stored
StoredMatrix == st[1].monopolar_to_bipolar_matrix[1]

\* the sense channels whose primary contact is port p, as list positions
ChannelsOf(p) == {i \in DOMAIN sense_channels : sense_channels[i].contact = p}

\* the last channel of port p references p itself
LastReferencesItself(p) ==
    LET last == CHOOSE i \in ChannelsOf(p) : \A k \in ChannelsOf(p) : k <= i
    IN  sense_channels[last].ref = p

\* C25, as stated: the matrix has 1 at (contact, contact) for every sense
\* channel and -1 at (contact, ref) for every channel with ref # 0, and the
\* row and the column of a port that is the primary of no channel are zero
C25_MatrixEntries ==
    JustCreated =>
        /\ \A i \in DOMAIN sense_channels :
              /\ StoredMatrix[sense_channels[i].contact][sense_channels[i].contact] = 1
              /\ sense_channels[i].ref # 0 =>
                    StoredMatrix[sense_channels[i].contact][sense_channels[i].ref] = -1
        /\ \A p \in (1..NumPorts) \ Primaries :
              \A q \in 1..NumPorts : StoredMatrix[p][q] = 0 /\ StoredMatrix[q][p] = 0

\* C25, amended: off the diagonal the entry (p, q) is -1 when a channel has
\* contact p and ref q, else 0; on the diagonal the entry of a primary port
\* is 1, or -1 when the last channel of the port references the port itself;
\* so the row of a port that is no primary is zero, and the column of a port
\* that is neither a primary nor a ref is zero
C25_EntriesWithRefColumns ==
    JustCreated =>
        \A p, q \in 1..NumPorts :
            StoredMatrix[p][q] =
                IF p # q
                THEN IF \E i \in ChannelsOf(p) : sense_channels[i].ref = q THEN -1 ELSE 0
                ELSE IF p \notin Primaries THEN 0
                     ELSE IF LastReferencesItself(p) THEN -1 ELSE 1

\* create() has returned for a channel that references itself and a channel
\* whose ref is the primary of no channel
C25_Witness ==
    /\ JustCreated
    /\ \E i \in DOMAIN sense_channels : sense_channels[i].ref = sense_channels[i].contact
    /\ \E i \in DOMAIN sense_channels : sense_channels[i].ref \in Refs \ Primaries

\* C25 as stated, without the columns: it fails only for a channel that
\* references itself
EntriesWithoutColumns ==
    (JustCreated /\ \A i \in DOMAIN sense_channels :
                        sense_channels[i].ref # sense_channels[i].contact) =>
        /\ \A i \in DOMAIN sense_channels :
              /\ StoredMatrix[sense_channels[i].contact][sense_channels[i].contact] = 1
              /\ sense_channels[i].ref # 0 =>
                    StoredMatrix[sense_channels[i].contact][sense_channels[i].ref] = -1
        /\ \A p \in (1..NumPorts) \ Primaries :
              \A q \in 1..NumPorts : StoredMatrix[p][q] = 0

(***************************************************************************)
(* The entries of the stored inverse.                                      *)
(***************************************************************************)
\* each port is the primary of at most one sense channel and no channel
\* references itself
WellFormed ==
    /\ \A i, j \in DOMAIN sense_channels :
          i # j => sense_channels[i].contact # sense_channels[j].contact
    /\ \A i \in DOMAIN sense_channels : sense_channels[i].ref # sense_channels[i].contact

StoredInverse == st[1].bipolar_to_monopolar_matrix[1]

\* C26: when the inversion succeeds for a configuration in which each port
\* is the primary of at most one channel and no channel references itself,
\* every entry of the stored inverse is one of the integers 0, 1, -1
C26_InverseEntries ==
    (JustCreated /\ WellFormed /\ monopolar_possible(st[1])) =>
        /\ StoredInverse.den \in {1, -1}
        /\ \A i \in DOMAIN StoredInverse.num : \A j \in DOMAIN StoredInverse.num[i] :
              StoredInverse.num[i][j] \in {0, StoredInverse.den, -StoredInverse.den}

\* the inversion has succeeded for such a configuration with a channel that
\* references another, and the inverse has an entry off its diagonal
C26_Witness ==
    /\ JustCreated
    /\ WellFormed
    /\ monopolar_possible(st[1])
    /\ \E i \in DOMAIN sense_channels : sense_channels[i].ref # 0
    /\ \E i, j \in DOMAIN StoredInverse.num : i # j /\ StoredInverse.num[i][j] # 0

(***************************************************************************)
(* The sense channel lines that to_csv writes.                             *)
(***************************************************************************)
\* the line written for the sense channel at position i of the model
SenseLine(i) == csv_file[Len(ExportHeader(written[1])) + Len(written[1].contacts) + 2 + i]

\* C27: the first field of the line of each sense channel is the label of
\* the configured contact whose port is the primary contact port of the
\* channel, whatever the order of the ports in the contact list
C27_SenseLineLabel ==
    Wrote =>
        \A i \in DOMAIN written[1].sense_channels :
            \A k \in DOMAIN written[1].contacts :
                written[1].contacts[k].port = written[1].sense_channels[i].contact =>
                    SenseLine(i)[1] = written[1].contacts[k].label

\* the first field is the label of the contact at the list position that the
\* primary contact port names
SenseLineLabelByPosition ==
    Wrote =>
        \A i \in DOMAIN written[1].sense_channels :
            /\ written[1].sense_channels[i].contact \in DOMAIN written[1].contacts
            /\ SenseLine(i)[1] =
                   written[1].contacts[written[1].sense_channels[i].contact].label
            /\ SenseLine(i)[2] = written[1].sense_channels[i].name

(***************************************************************************)
(* The round trip of the wiring.                                           *)
(***************************************************************************)
\* the sense channels and the stim channels read are those of the model m,
\* in number, order, names and ports
SameWiring(m) ==
    /\ err = "none"
    /\ Len(sense_channels) = Len(m.sense_channels)
    /\ \A i \in DOMAIN sense_channels :
          /\ sense_channels[i].name = m.sense_channels[i].name
          /\ sense_channels[i].contact = m.sense_channels[i].contact
          /\ sense_channels[i].ref = m.sense_channels[i].ref
    /\ Len(stim_channels) = Len(m.stim_channels)
    /\ \A i \in DOMAIN stim_channels :
          /\ stim_channels[i].name = m.stim_channels[i].name
          /\ stim_channels[i].anode = m.stim_channels[i].anode
          /\ stim_channels[i].cathode = m.stim_channels[i].cathode

\* the model written has a contact, a sense channel and a stim channel
FullModel(m) == m.contacts # <<>> /\ m.sense_channels # <<>> /\ m.stim_channels # <<>>

\* C28: for a model with at least one contact, sense channel and stim
\* channel, reading back the file that to_csv wrote gives the same sense
\* channels (name, contact, ref) and stim channels (name, anode, cathode), in
\* number and order; the footer lines give no stim channel
C28_WiringRoundTrip == (ReadBack /\ FullModel(written[1])) => SameWiring(written[1])

\* the same for the models in which not every sense channel name is a
\* numeral and not every stim channel name is one
WiringRoundTripOfNames ==
    (/\ ReadBack
     /\ FullModel(written[1])
     /\ \E i \in DOMAIN written[1].sense_channels : ~IsInt(written[1].sense_channels[i].name)
     /\ \E i \in DOMAIN written[1].stim_channels : ~IsInt(written[1].stim_channels[i].name))
        => SameWiring(written[1])

(***************************************************************************)
(* add_stim_channel with one label for anode and cathode.                  *)
(***************************************************************************)
\* C29: add_stim_channel called with the same label as anode and as cathode
\* raises ContactNotFoundError and appends nothing, also when a contact
\* carries the label
C29_SameLabelRaises ==
    [][(/\ op' = "add_stim_channel"
        /\ Len(calls') = Len(calls) + 1
        /\ calls'[Len(calls')].anode_label = calls'[Len(calls')].cathode_label)
       => (/\ err' = "ContactNotFoundError"
           /\ stim_channels' = stim_channels)]_vars

\* a call with the label of two configured contacts as anode and as cathode
C29_Witness ==
    /\ op = "add_stim_channel"
    /\ calls # <<>>
    /\ LastCall.anode_label = LastCall.cathode_label
    /\ Cardinality({i \in DOMAIN contacts : contacts[i].label = LastCall.anode_label}) >= 2
    /\ err = "ContactNotFoundError"

(***************************************************************************)
(* When monopolar reconstruction is possible.                              *)
(***************************************************************************)
\* the ref of the sense channel whose primary contact is port p
RefOf(p) == sense_channels[CHOOSE i \in DOMAIN sense_channels : sense_channels[i].contact = p].ref

\* following the refs from port p reaches ref 0 in at most k steps, through
\* primary contacts only
RECURSIVE EndsAtZero(_, _)
EndsAtZero(p, k) ==
    IF p = 0 THEN TRUE
    ELSE IF k = 0 \/ p \notin Primaries THEN FALSE
    ELSE EndsAtZero(RefOf(p), k - 1)

\* no chain of refs comes back to a port it has left
NoCycle ==
    \A i \in DOMAIN sense_channels :
        EndsAtZero(sense_channels[i].contact, Len(sense_channels))

\* the pairs of create_pairs for MaxSense contacts of one electrode on the
\* ports 1..MaxSense: neighbours, and the last contact with the first
WrapAround == RowPairs(create_pairs(SheetOf([i \in 1..MaxSense |-> <<i, "A">>])).rows)

SensePairs ==
    [i \in DOMAIN sense_channels |-> <<sense_channels[i].contact, sense_channels[i].ref>>]

\* C30: for a configuration in which each port is the primary of at most one
\* sense channel and no channel references itself, monopolar_possible() is
\* true exactly when every non-zero ref is the primary contact of a channel
\* and every chain of refs ends at a channel with ref 0; the wrap-around
\* pairing of create_pairs is a cycle and makes it false
C30_MonopolarPossible ==
    /\ (JustCreated /\ WellFormed) =>
          (monopolar_possible(st[1]) <=> (Refs \subseteq Primaries /\ NoCycle))
    /\ (JustCreated /\ SensePairs = WrapAround) => ~monopolar_possible(st[1])

\* create() has returned for the sense channels of the wrap-around pairing
C30_Witness ==
    /\ JustCreated
    /\ WellFormed
    /\ SensePairs = WrapAround
    /\ Refs \subseteq Primaries
    /\ ~NoCycle
    /\ ~monopolar_possible(st[1])

====
